---- MODULE Spec2Model ----
(***************************************************************************)
(* The clip language pipeline: the lexer (src/src/lexer/mod.rs), the       *)
(* recursive-descent parser (src/src/parser/ast.rs and parser/mod.rs) and  *)
(* the tree-walking evaluator (src/src/eval/).                             *)
(*                                                                         *)
(* Text is a sequence of one-character strings.  A token is a record       *)
(* [type, text]; text holds the literal's characters, or the fragments of  *)
(* an Illegal token's message.  Source locations are left out: every token *)
(* carries the same one, because Lexer.line and Lexer.col are never        *)
(* written after Lexer::new.                                               *)
(***************************************************************************)
EXTENDS Integers, Sequences, FiniteSets, TLC

VARIABLES
    pc,        \* where the driver stands: "read", "lex", "parse", "eval", "done", "exit"
    text,      \* the source text handed to Lexer::new
    input,     \* Lexer.input: the characters not yet consumed
    res,       \* Lexer::lex's res: the tokens pushed so far
    mode,      \* the lexer loop that is running: "lex", "number", "string", "ident", "comment"
    value,     \* the literal being accumulated (value / string / ident)
    float,     \* lex_int_or_float's float flag
    escaped,   \* lex_string's escaped flag
    spins,     \* lexer loop iterations run since the last one that consumed a character or left its loop
    parsed,    \* what Parser::parse returned
    result,    \* what Evaluator::eval returned
    kind,      \* eval_operator's op.kind, for the operator functions applied to a value list
    values,    \* eval_operator's values: the evaluated arguments
    opres,     \* what the operator function returned
    session,   \* the Scope main and repl hand to eval (their `scope`)
    file,      \* whether args.file names a file (main) or not (repl)
    printed,   \* repl: per finished iteration, the text lexed and what was printed for it
    show,      \* args.token / args.parse (show_token / show_parse): "token", "parse" or "none"
    lastline,  \* repl: the line the last read_line returned
    build      \* what the program was built with: see Builds

vars == <<pc, text, input, res, mode, value, float, escaped, spins, parsed, result,
          kind, values, opres, session, file, printed, show, lastline, build>>

lexvars == <<input, res, mode, value, float, escaped, spins>>
opvars == <<kind, values, opres>>
replvars == <<session, file, printed, show, lastline>>

(***************************************************************************)
(* Bounds of the model.                                                    *)
(***************************************************************************)
MaxSpin == 2      \* non-consuming lexer iterations counted before the count saturates
MaxDigits == 2    \* longest integer literal among the source texts
MaxArgs == 3      \* longest value list handed to an operator function

Min(a, b) == IF a < b THEN a ELSE b

(***************************************************************************)
(* The builds of the program, which differ in two places.  overflow_checks *)
(* is the profile's setting: with it (cargo build) an i64 `+`, `-` or `*`  *)
(* whose result is no i64 panics, without it (cargo build --release) the   *)
(* result is wrapped around.  sum_zero is the value `<f64 as Sum>::sum`    *)
(* folds from: 0.0 in the standard library up to 1.82, -0.0 since.  The    *)
(* fraction of a float is explained with the AST's values.                 *)
(***************************************************************************)
Builds == [overflow_checks : BOOLEAN, sum_zero : {<<0, 1>>, <<0, -1>>}]

(***************************************************************************)
(* Characters.                                                             *)
(***************************************************************************)
Digits == {"0", "1", "2", "3", "4", "5", "6", "7", "8", "9"}
Letters == {"a", "b", "c", "d", "e", "f", "g", "h", "i", "j", "k", "l", "m",
            "n", "o", "p", "q", "r", "s", "t", "u", "v", "w", "x", "y", "z",
            "A", "B", "C", "D", "E", "F", "G", "H", "I", "J", "K", "L", "M",
            "N", "O", "P", "Q", "R", "S", "T", "U", "V", "W", "X", "Y", "Z",
            "_"}

DigitValue(c) ==
    CASE c = "0" -> 0 [] c = "1" -> 1 [] c = "2" -> 2 [] c = "3" -> 3
      [] c = "4" -> 4 [] c = "5" -> 5 [] c = "6" -> 6 [] c = "7" -> 7
      [] c = "8" -> 8 [] c = "9" -> 9

(***************************************************************************)
(* Tokens (lexer/token.rs).                                                *)
(***************************************************************************)
Token(type, txt) == [type |-> type, text |-> txt]
Plain(type) == Token(type, <<>>)

\* TokenValue's Display: the text a token is named by in error messages.
TokenDisplay(t) ==
    CASE t.type = "EOF" -> <<"eof">>
      [] t.type = "Semicolon" -> <<"semicolon">>
      [] t.type = "Newline" -> <<"newline">>
      [] t.type = "LeftParen" -> <<"left paren">>
      [] t.type = "RightParen" -> <<"right paren">>
      [] t.type = "LeftBracket" -> <<"left bracket">>
      [] t.type = "RightBracket" -> <<"right bracket">>
      [] t.type = "If" -> <<"if">>
      [] t.type = "Elif" -> <<"elif">>
      [] t.type = "Else" -> <<"else">>
      [] t.type = "Assign" -> <<"assign">>
      [] t.type = "Equal" -> <<"equal">>
      [] t.type = "Plus" -> <<"plus">>
      [] t.type = "Minus" -> <<"minus">>
      [] t.type = "Asterisk" -> <<"asterisk">>
      [] t.type = "Slash" -> <<"slash">>
      [] t.type = "Bang" -> <<"bang">>
      [] t.type = "And" -> <<"and">>
      [] t.type = "Or" -> <<"or">>
      [] t.type = "BlockStart" -> <<"block start">>
      [] t.type = "BlockEnd" -> <<"block end">>
      [] t.type = "Integer" -> <<"integer: ">> \o t.text
      [] t.type = "Float" -> <<"float: ">> \o t.text
      [] t.type = "String" -> <<"string: ">> \o t.text
      [] t.type = "True" -> <<"boolean: true">>
      [] t.type = "False" -> <<"boolean: false">>
      [] t.type = "Ident" -> <<"ident: ">> \o t.text
      [] t.type = "Illegal" -> <<"illegal: ">> \o t.text

(***************************************************************************)
(* The lexer (lexer/mod.rs).  One step is one iteration of the loop that   *)
(* is running; the iteration of Lexer::lex that enters lex_int_or_float,   *)
(* lex_string, lex_ident or the comment loop includes that loop's first    *)
(* iteration, which always consumes the character that selected it.        *)
(***************************************************************************)
SingleCharToken(c) ==
    CASE c = ";" -> "Semicolon"
      [] c = "(" -> "LeftParen"
      [] c = ")" -> "RightParen"
      [] c = "[" -> "LeftBracket"
      [] c = "]" -> "RightBracket"
      [] c = "{" -> "BlockStart"
      [] c = "}" -> "BlockEnd"
      [] c = "+" -> "Plus"
      [] c = "-" -> "Minus"
      [] c = "*" -> "Asterisk"
      [] c = "/" -> "Slash"
      [] c = "!" -> "Bang"
      [] c = "\n" -> "Newline"

SingleChars == {";", "(", ")", "[", "]", "{", "}", "+", "-", "*", "/", "!", "\n"}

\* lex_ident's reserved words.
IdentToken(ident) ==
    CASE ident = <<"i", "f">> -> Plain("If")
      [] ident = <<"e", "l", "i", "f">> -> Plain("Elif")
      [] ident = <<"e", "l", "s", "e">> -> Plain("Else")
      [] ident = <<"t", "r", "u", "e">> -> Plain("True")
      [] ident = <<"f", "a", "l", "s", "e">> -> Plain("False")
      [] OTHER -> Token("Ident", ident)

\* An iteration that consumed a character or left its loop.
Progress == spins' = 0
\* An iteration that did neither.
NoProgress == spins' = Min(spins + 1, MaxSpin)

\* `=`, `&`, `|`: the character is consumed, then the next one is peeked.
LexPair(c, rest) ==
    LET same == rest # <<>> /\ Head(rest) = c
        double == CASE c = "=" -> Plain("Equal")
                    [] c = "&" -> Plain("And")
                    [] c = "|" -> Plain("Or")
        single == IF c = "=" THEN Plain("Assign")
                  ELSE Token("Illegal", <<"unexpected: ", c>>)
    IN  /\ res' = Append(res, IF same THEN double ELSE single)
        /\ input' = IF same THEN Tail(rest) ELSE rest

\* One iteration of Lexer::lex's loop.
LexMain ==
    /\ pc = "lex" /\ mode = "lex"
    /\ IF input = <<>>
       THEN /\ res' = Append(res, Plain("EOF"))
            /\ pc' = "parse"
            /\ UNCHANGED <<input, mode, value, float, escaped>>
       ELSE LET c == Head(input)
                rest == Tail(input)
            IN  /\ pc' = pc
                /\ CASE c \in {" ", "\t"} ->
                          /\ input' = rest
                          /\ UNCHANGED <<res, mode, value, float, escaped>>
                     [] c = "\r" ->
                          \* input.next() returns the carriage return itself
                          /\ IF c = "\n"
                             THEN /\ res' = Append(res, Plain("Newline"))
                                  /\ input' = IF rest = <<>> THEN rest ELSE Tail(rest)
                             ELSE /\ res' = res
                                  /\ input' = rest
                          /\ UNCHANGED <<mode, value, float, escaped>>
                     [] c \in SingleChars ->
                          /\ res' = Append(res, Plain(SingleCharToken(c)))
                          /\ input' = rest
                          /\ UNCHANGED <<mode, value, float, escaped>>
                     [] c = "#" ->
                          /\ input' = rest
                          /\ mode' = "comment"
                          /\ UNCHANGED <<res, value, float, escaped>>
                     [] c \in {"=", "&", "|"} ->
                          /\ LexPair(c, rest)
                          /\ UNCHANGED <<mode, value, float, escaped>>
                     [] c \in Digits ->
                          /\ input' = rest
                          /\ mode' = "number"
                          /\ value' = <<c>>
                          /\ float' = FALSE
                          /\ UNCHANGED <<res, escaped>>
                     [] c = "\"" ->
                          /\ input' = rest
                          /\ mode' = "string"
                          /\ value' = <<>>
                          /\ escaped' = FALSE
                          /\ UNCHANGED <<res, float>>
                     [] c \in Letters ->
                          /\ input' = rest
                          /\ mode' = "ident"
                          /\ value' = <<c>>
                          /\ UNCHANGED <<res, float, escaped>>
                     [] OTHER ->
                          /\ res' = Append(res, Token("Illegal", <<"unexpected: ", c>>))
                          /\ input' = rest
                          /\ UNCHANGED <<mode, value, float, escaped>>
    /\ Progress
    /\ UNCHANGED <<text, parsed, result, opvars, replvars, build>>

\* One iteration of the `#` loop.
LexComment ==
    /\ pc = "lex" /\ mode = "comment"
    /\ IF input = <<>>
       THEN /\ res' = Append(res, Plain("EOF"))
            /\ mode' = "lex"
            /\ input' = input
       ELSE /\ input' = Tail(input)
            /\ mode' = IF Head(input) = "\n" THEN "lex" ELSE mode
            /\ res' = res
    /\ Progress
    /\ UNCHANGED <<pc, text, value, float, escaped, parsed, result, opvars, replvars, build>>

\* The token lex_int_or_float returns when its loop ends.
NumberToken == Token(IF float THEN "Float" ELSE "Integer", value)

\* One iteration of lex_int_or_float's loop.
LexNumber ==
    /\ pc = "lex" /\ mode = "number"
    /\ IF input = <<>>
       THEN /\ res' = Append(res, NumberToken)
            /\ mode' = "lex"
            /\ Progress
            /\ UNCHANGED <<input, value, float>>
       ELSE LET c == Head(input) IN
            CASE c \in Digits ->
                   /\ value' = Append(value, c)
                   /\ input' = Tail(input)
                   /\ Progress
                   /\ UNCHANGED <<res, mode, float>>
              [] c = "_" ->
                   \* `continue`: nothing is consumed
                   /\ NoProgress
                   /\ UNCHANGED <<input, res, mode, value, float>>
              [] c = "." ->
                   IF float
                   THEN /\ input' = Tail(input)
                        /\ res' = Append(res, Token("Illegal", <<"unexpected: ", c>>))
                        /\ mode' = "lex"
                        /\ Progress
                        /\ UNCHANGED <<value, float>>
                   ELSE /\ float' = TRUE
                        /\ value' = Append(value, ".")
                        /\ input' = Tail(input)
                        /\ Progress
                        /\ UNCHANGED <<res, mode>>
              [] OTHER ->
                   /\ res' = Append(res, NumberToken)
                   /\ mode' = "lex"
                   /\ Progress
                   /\ UNCHANGED <<input, value, float>>
    /\ UNCHANGED <<pc, text, escaped, parsed, result, opvars, replvars, build>>

\* One iteration of lex_string's loop.
LexString ==
    /\ pc = "lex" /\ mode = "string"
    /\ IF input = <<>>
       THEN /\ res' = Append(res, Token("Illegal", <<"unterminated quote string">>))
            /\ mode' = "lex"
            /\ Progress
            /\ UNCHANGED <<input, value, escaped>>
       ELSE LET c == Head(input) IN
            CASE c = "\\" ->
                   \* the flag flips; the backslash is neither copied nor consumed
                   /\ escaped' = ~escaped
                   /\ NoProgress
                   /\ UNCHANGED <<input, res, mode, value>>
              [] c = "\"" ->
                   IF escaped
                   THEN /\ escaped' = FALSE
                        /\ NoProgress
                        /\ UNCHANGED <<input, res, mode, value>>
                   ELSE /\ input' = Tail(input)
                        /\ res' = Append(res, Token("String", value))
                        /\ mode' = "lex"
                        /\ Progress
                        /\ UNCHANGED <<value, escaped>>
              [] OTHER ->
                   /\ value' = Append(value, c)
                   /\ input' = Tail(input)
                   /\ Progress
                   /\ UNCHANGED <<res, mode, escaped>>
    /\ UNCHANGED <<pc, text, float, parsed, result, opvars, replvars, build>>

\* One iteration of lex_ident's loop.
LexIdent ==
    /\ pc = "lex" /\ mode = "ident"
    /\ IF input # <<>> /\ Head(input) \in Letters
       THEN /\ value' = Append(value, Head(input))
            /\ input' = Tail(input)
            /\ UNCHANGED <<res, mode>>
       ELSE /\ res' = Append(res, IdentToken(value))
            /\ mode' = "lex"
            /\ UNCHANGED <<input, value>>
    /\ Progress
    /\ UNCHANGED <<pc, text, float, escaped, parsed, result, opvars, replvars, build>>

(***************************************************************************)
(* The parser (parser/mod.rs, parser/ast.rs).  Parser.tokens is t and      *)
(* Parser.pos is pos, counted from 0 as in the code.  A parse function     *)
(* returns [st, node, pos, msg]: st is "ok" with the node built, "err"     *)
(* with the Error's message, or "panic" when tokens[..] was indexed at or  *)
(* past the list's length; pos is where the cursor was left, also on an    *)
(* error, since the cursor is moved in place.                              *)
(***************************************************************************)
Ok(node, pos) == [st |-> "ok", node |-> node, pos |-> pos, msg |-> <<>>]
Err(msg, pos) == [st |-> "err", node |-> <<>>, pos |-> pos, msg |-> msg]
Panic(pos) == [st |-> "panic", node |-> <<>>, pos |-> pos,
               msg |-> <<"index out of bounds">>]

\* Parser::current_token: tokens[pos].
current_token(t, pos) == t[pos + 1]
\* Whether tokens[pos + 1], which next_token and peek_token index, exists.
HasNext(t, pos) == pos + 1 < Len(t)
\* Option: None, or Some(x).
None == <<>>
Some(x) == <<x>>

\* Parser::peek_token: None when there are no tokens, else tokens[pos + 1].
peek_token(t, pos) == IF t = <<>> THEN None ELSE Some(t[pos + 2])
\* `p.peek_token().value` as ast.rs reads it: the token peek_token found.
peeked(t, pos) == peek_token(t, pos)[1]

Separators == {"Semicolon", "Newline"}
StatementEnd == {"EOF", "Semicolon", "Newline"}
OperatorTokens == {"Equal", "Plus", "Minus", "Asterisk", "Slash", "Bang"}
PrimitiveTokens == {"Integer", "Float", "String", "True", "False"}

Unexpected(tok) == <<"unexpected token ">> \o TokenDisplay(tok)
EndOfFile == <<"unexpected end of file">>

(***************************************************************************)
(* Values of the AST.  A primitive is [kind, v].  An integer's v is the    *)
(* number.  A float's v is the f64's value as a fraction <<n, d>> in       *)
(* lowest terms with d > 0; <<0, 1>> is 0.0 and <<0, -1>> is -0.0,         *)
(* <<1, 0>> and <<-1, 0>> are the infinities and <<0, 0>> is NaN.          *)
(***************************************************************************)
Integer(n) == [kind |-> "integer", v |-> n]
Float(q) == [kind |-> "float", v |-> q]
String(s) == [kind |-> "string", v |-> s]
Boolean(b) == [kind |-> "boolean", v |-> b]
Null == [kind |-> "null", v |-> <<>>]

Abs(n) == IF n < 0 THEN -n ELSE n
Sign(n) == IF n < 0 THEN -1 ELSE IF n > 0 THEN 1 ELSE 0

RECURSIVE Gcd(_, _)
Gcd(a, b) == IF b = 0 THEN a ELSE Gcd(b, a % b)

\* The fraction n/d in lowest terms, the denominator not negative.
Fraction(n, d) ==
    IF d = 0 THEN <<Sign(n), 0>>
    ELSE LET g == Gcd(Abs(n), Abs(d))
         IN  <<Sign(d) * (n \div g), Abs(d) \div g>>

RECURSIVE Pow10(_)
Pow10(k) == IF k = 0 THEN 1 ELSE 10 * Pow10(k - 1)
RECURSIVE Pow2(_)
Pow2(k) == IF k = 0 THEN 1 ELSE 2 * Pow2(k - 1)

\* The number of binary digits of n >= 0.
RECURSIVE BitLen(_)
BitLen(n) == IF n = 0 THEN 0 ELSE 1 + BitLen(n \div 2)

(***************************************************************************)
(* i64.  x is an i64 when -2^63 <= x < 2^63, which is told from the binary *)
(* digits x takes.  An operation whose result is no i64 panics where the   *)
(* build checks overflow and wraps around where it does not.               *)
(***************************************************************************)
I64Bits == 64
InI64(x) == IF x >= 0 THEN BitLen(x) < I64Bits ELSE BitLen(-x - 1) < I64Bits
\* x in two's complement of 64 bits.
WrapI64(x) == ((x + Pow2(I64Bits - 1)) % Pow2(I64Bits)) - Pow2(I64Bits - 1)

\* The digits of i64::MAX.
MaxI64Digits == <<"9", "2", "2", "3", "3", "7", "2", "0", "3", "6", "8", "5", "4", "7",
                  "7", "5", "8", "0", "7">>

\* A digit sequence without its leading zeros.
RECURSIVE StripZeros(_)
StripZeros(digits) ==
    IF digits # <<>> /\ Head(digits) = "0" THEN StripZeros(Tail(digits)) ELSE digits

\* Whether a writes a larger number than b, which has as many digits.
RECURSIVE DigitsGreater(_, _)
DigitsGreater(a, b) ==
    IF a = <<>> THEN FALSE
    ELSE IF Head(a) # Head(b) THEN DigitValue(Head(a)) > DigitValue(Head(b))
    ELSE DigitsGreater(Tail(a), Tail(b))

\* Whether the number the digits write is above i64::MAX.
PosOverflow(digits) ==
    \/ Len(StripZeros(digits)) > Len(MaxI64Digits)
    \/ /\ Len(StripZeros(digits)) = Len(MaxI64Digits)
       /\ DigitsGreater(StripZeros(digits), MaxI64Digits)

\* The number a digit sequence writes in base ten.
RECURSIVE DecimalValue(_)
DecimalValue(digits) ==
    IF digits = <<>> THEN 0
    ELSE 10 * DecimalValue(SubSeq(digits, 1, Len(digits) - 1))
         + DigitValue(digits[Len(digits)])

\* DecimalValue with the digits taken from the wrong end.
RECURSIVE DecimalValueReversed(_)
DecimalValueReversed(digits) ==
    IF digits = <<>> THEN 0
    ELSE 10 * DecimalValueReversed(Tail(digits)) + DigitValue(Head(digits))

\* ParseInt with the digits taken from the wrong end.
ParseIntReversed(digits) ==
    IF digits = <<>>
    THEN [st |-> "err", msg |-> <<"cannot parse integer from empty string">>]
    ELSE IF PosOverflow(digits)
    THEN [st |-> "err", msg |-> <<"number too large to fit in target type">>]
    ELSE [st |-> "ok", v |-> DecimalValueReversed(digits)]

\* str::parse::<i64> on a digit sequence: Ok(n), or Err(ParseIntError) with
\* the error's text.
ParseInt(digits) ==
    IF digits = <<>>
    THEN [st |-> "err", msg |-> <<"cannot parse integer from empty string">>]
    ELSE IF PosOverflow(digits)
    THEN [st |-> "err", msg |-> <<"number too large to fit in target type">>]
    ELSE [st |-> "ok", v |-> DecimalValue(digits)]

(***************************************************************************)
(* f64.  A finite f64 is m * 2^e with m below 2^53 and e from -1074 to     *)
(* 971.  The result of an operation is the f64 nearest to the exact        *)
(* result, the one with the even m of two that are as near, an infinity    *)
(* from 2^1024 on, and a zero, which keeps the sign, below half of         *)
(* 2^-1074.                                                                *)
(***************************************************************************)
MantissaBits == 53     \* binary digits of an f64's significand
MinExponent == -1074   \* 2^-1074 is the smallest f64 above 0.0
MaxExponent == 1024    \* every finite f64 is below 2^1024

NaN == <<0, 0>>
Zero(neg) == IF neg THEN <<0, -1>> ELSE <<0, 1>>
Infinity(neg) == IF neg THEN <<-1, 0>> ELSE <<1, 0>>
IsNaN(q) == q = NaN
IsInf(q) == q[2] = 0 /\ q[1] # 0
IsZeroF(q) == q[1] = 0 /\ q[2] # 0
\* The sign bit of a float that is not NaN.
Negative(q) == q[1] < 0 \/ q = Zero(TRUE)

RECURSIVE IsPow2(_)
IsPow2(d) == d = 1 \/ (d % 2 = 0 /\ IsPow2(d \div 2))
\* n > 0 without its factors of two.
RECURSIVE OddPart(_)
OddPart(n) == IF n % 2 = 0 THEN OddPart(n \div 2) ELSE n

\* Whether n/d, in lowest terms and above 0, is an f64.
IsF64(n, d) ==
    /\ IsPow2(d)
    /\ BitLen(d) - 1 <= -MinExponent
    /\ BitLen(OddPart(n)) <= MantissaBits
    /\ BitLen(n) - (BitLen(d) - 1) <= MaxExponent

\* The e with 2^e <= n/d < 2^(e + 1), for n/d above 0.
RECURSIVE FloorLog2(_, _)
FloorLog2(n, d) ==
    IF n < d THEN FloorLog2(2 * n, d) - 1
    ELSE IF n >= 2 * d THEN FloorLog2(n, 2 * d) + 1
    ELSE 0

\* The place of an f64's last binary digit where the first is at 2^e: 52
\* places below, and no lower than 2^-1074.
LastPlace(e) ==
    (IF e < MinExponent + MantissaBits - 1 THEN MinExponent + MantissaBits - 1 ELSE e)
    - (MantissaBits - 1)

\* The integer nearest to n/d, the even one of two that are as near.
RoundEven(n, d) ==
    IF 2 * (n % d) > d \/ (2 * (n % d) = d /\ (n \div d) % 2 = 1)
    THEN (n \div d) + 1
    ELSE n \div d

\* n/d counted in units of 2^s, to the nearest unit.
Units(n, d, s) ==
    IF s < 0 THEN RoundEven(n * Pow2(-s), d) ELSE RoundEven(n, d * Pow2(s))

\* The float m * 2^s with the sign neg.
Finite(neg, m, s) ==
    IF m = 0 THEN Zero(neg)
    ELSE IF s < 0 THEN Fraction(IF neg THEN -m ELSE m, Pow2(-s))
    ELSE <<(IF neg THEN -m ELSE m) * Pow2(s), 1>>

\* n/d rounded at the place 2^s: an infinity when that reaches 2^1024.
NearestAt(neg, n, d, s) ==
    IF \/ s > MaxExponent - MantissaBits
       \/ s = MaxExponent - MantissaBits /\ Units(n, d, s) = Pow2(MantissaBits)
    THEN Infinity(neg)
    ELSE Finite(neg, Units(n, d, s), s)

\* The f64 nearest to n/d above 0, with the sign neg.
Nearest(neg, n, d) == NearestAt(neg, n, d, LastPlace(FloorLog2(n, d)))

\* The fraction f above 0 as an f64 with the sign neg.  A number that is an
\* f64 is its own nearest f64.
RoundFraction(neg, f) ==
    IF IsF64(f[1], f[2]) THEN (IF neg THEN <<-f[1], f[2]>> ELSE f)
    ELSE Nearest(neg, f[1], f[2])

\* An exact result n/d, n >= 0 and d > 0, with the sign neg, as the f64 the
\* operation returns.
RoundF64(neg, n, d) == IF n = 0 THEN Zero(neg) ELSE RoundFraction(neg, Fraction(n, d))

\* str::parse::<f64> on digits with one `.`: the f64 nearest to the decimal.
ParseFloat(txt) ==
    LET dot == CHOOSE i \in 1..Len(txt) : txt[i] = "."
        digits == SubSeq(txt, 1, dot - 1) \o SubSeq(txt, dot + 1, Len(txt))
    IN  RoundF64(FALSE, DecimalValue(digits), Pow10(Len(txt) - dot))

\* `Self::Integer(v.parse()?)`: the integer, or the ParseIntError as the Error.
IntegerParse(r, pos) ==
    IF r.st = "ok" THEN Ok(Integer(r.v), pos) ELSE Err(r.msg, pos)

\* Primitive::parse.
PrimitiveParse(t, pos) ==
    LET tok == current_token(t, pos) IN
    CASE tok.type = "Integer" -> IntegerParse(ParseInt(tok.text), pos)
      [] tok.type = "Float" -> Ok(Float(ParseFloat(tok.text)), pos)
      [] tok.type = "String" -> Ok(String(tok.text), pos)
      [] tok.type = "True" -> Ok(Boolean(TRUE), pos)
      [] tok.type = "False" -> Ok(Boolean(FALSE), pos)

\* Identifier::parse.  An Identifier is its name.
IdentifierParse(t, pos) ==
    LET tok == current_token(t, pos) IN
    IF tok.type = "Ident" THEN Ok(tok.text, pos) ELSE Err(Unexpected(tok), pos)

OperatorKind(tok) ==
    CASE tok.type = "Equal" -> "equal"
      [] tok.type = "Plus" -> "add"
      [] tok.type = "Minus" -> "subtract"
      [] tok.type = "Asterisk" -> "multiply"
      [] tok.type = "Slash" -> "divide"
      [] tok.type = "Bang" -> "inverse"

\* Nodes.
AssignNode(name, val) == [s |-> "Assign", name |-> name, value |-> val]
IfNode(cond, cons, alt) ==
    [s |-> "If", condition |-> cond, consequence |-> cons, alternative |-> alt]
ExpressionStatement(e) == [s |-> "Expression", expr |-> e]
PrimitiveExpr(p) == [e |-> "Primitive", prim |-> p]
IdentifierExpr(name) == [e |-> "Identifier", name |-> name]
OperatorExpr(k, args) == [e |-> "Operator", kind |-> k, args |-> args]
FunctionExpr(f) == [e |-> "Function", fun |-> f]
CallExpr(name, args) == [e |-> "Call", name |-> name, args |-> args]
AndExpr(args) == [e |-> "And", args |-> args]
OrExpr(args) == [e |-> "Or", args |-> args]
Function(params, body) == [kind |-> "function", params |-> params, body |-> body]

\* The `?` of the source (as in `Identifier::parse(p)?`, parser/ast.rs:60):
\* a failed parse leaves the calling function at once, a successful one
\* hands its result on.
Try(r, K(_)) == IF r.st # "ok" THEN r ELSE K(r)
\* A `match` on a parse result (as in Operator::parse, parser/ast.rs:335).
Match(r, K(_)) == K(r)

RECURSIVE StatementParse(_, _), AssignParse(_, _), IfParse(_, _), IfBlock(_, _, _, _),
          ParseExpressionAt(_, _, _), OperatorArgs(_, _, _), FunctionParse(_, _),
          FunctionParams(_, _, _), FunctionBody(_, _, _), CallArgs(_, _, _),
          LogicArgs(_, _, _), ProgramLoop(_, _, _)

\* Expression::parse (call = TRUE) and Expression::parse_non_call (call = FALSE):
\* the two differ in the Ident arm alone.
ParseExpressionAt(t, pos, call) ==
    LET tok == current_token(t, pos) IN
    CASE tok.type = "LeftParen" ->
           IF ~HasNext(t, pos) THEN Panic(pos)
           ELSE IF peeked(t, pos).type = "RightParen"
           THEN Ok(PrimitiveExpr(Null), pos + 1)
           ELSE Try(ParseExpressionAt(t, pos + 1, TRUE), LAMBDA r :
                IF ~HasNext(t, r.pos) THEN Panic(r.pos)
                ELSE IF peeked(t, r.pos).type = "RightParen"
                THEN Ok(r.node, r.pos + 1)
                ELSE Err(<<"expected right paren; got ">>
                           \o TokenDisplay(peeked(t, r.pos)), r.pos))
      [] tok.type \in {"And", "Or"} ->
           Try(LogicArgs(t, pos, <<>>), LAMBDA r :
               Ok(IF tok.type = "And" THEN AndExpr(r.node) ELSE OrExpr(r.node), r.pos))
      [] tok.type = "BlockStart" ->
           Try(FunctionParse(t, pos), LAMBDA r : Ok(FunctionExpr(r.node), r.pos))
      [] tok.type \in PrimitiveTokens ->
           Try(PrimitiveParse(t, pos), LAMBDA r : Ok(PrimitiveExpr(r.node), r.pos))
      [] tok.type = "Ident" ->
           IF ~call THEN Ok(IdentifierExpr(tok.text), pos)
           ELSE IF ~HasNext(t, pos) THEN Panic(pos)
           ELSE IF peeked(t, pos).type \in StatementEnd
           THEN Ok(IdentifierExpr(tok.text), pos)
           ELSE Try(CallArgs(t, pos, <<>>), LAMBDA r :
                    Ok(CallExpr(tok.text, r.node), r.pos))
      [] tok.type \in OperatorTokens ->
           Try(OperatorArgs(t, pos, <<>>), LAMBDA r :
               Ok(OperatorExpr(OperatorKind(tok), r.node), r.pos))
      [] OTHER -> Err(Unexpected(tok), pos)

\* Expression::parse.
ExpressionParse(t, pos) == ParseExpressionAt(t, pos, TRUE)
\* Expression::parse_non_call.
parse_non_call(t, pos) == ParseExpressionAt(t, pos, FALSE)

\* Operator::parse's loop with the `Err(_) => break` arm returning the error.
OperatorArgsPropagate(t, pos, args) ==
    IF ~HasNext(t, pos) THEN Panic(pos)
    ELSE IF peeked(t, pos).type
              \in {"EOF", "Semicolon", "Newline", "RightParen", "BlockStart"}
    THEN Ok(args, pos)
    ELSE Try(parse_non_call(t, pos + 1), LAMBDA r :
             OperatorArgs(t, r.pos, Append(args, r.node)))

\* Operator::parse's loop: an argument that fails to parse ends the
\* collection, the cursor staying where the failed parse left it.
OperatorArgs(t, pos, args) ==
    IF ~HasNext(t, pos) THEN Panic(pos)
    ELSE IF peeked(t, pos).type
              \in {"EOF", "Semicolon", "Newline", "RightParen", "BlockStart"}
    THEN Ok(args, pos)
    ELSE Match(parse_non_call(t, pos + 1), LAMBDA r :
         CASE r.st = "ok" -> OperatorArgs(t, r.pos, Append(args, r.node))
           [] r.st = "err" -> Ok(args, r.pos)
           [] r.st = "panic" -> r)

\* Call::parse's loop.
CallArgs(t, pos, args) ==
    IF ~HasNext(t, pos) THEN Panic(pos)
    ELSE IF peeked(t, pos).type \in {"EOF", "Semicolon", "Newline", "RightParen"}
    THEN Ok(args, pos)
    ELSE Try(ExpressionParse(t, pos + 1), LAMBDA r :
             CallArgs(t, r.pos, Append(args, r.node)))

\* And::parse's and Or::parse's loop.
LogicArgs(t, pos, args) ==
    IF ~HasNext(t, pos) THEN Panic(pos)
    ELSE IF peeked(t, pos).type
              \in {"EOF", "Semicolon", "Newline", "RightParen", "BlockStart"}
    THEN Ok(args, pos)
    ELSE Try(ExpressionParse(t, pos + 1), LAMBDA r :
             LogicArgs(t, r.pos, Append(args, r.node)))

\* Function::parse's parameter loop, entered with the cursor on a parameter.
FunctionParams(t, pos, params) ==
    IF ~HasNext(t, pos) THEN Panic(pos)
    ELSE LET tok == peeked(t, pos) IN
         CASE tok.type = "EOF" -> Err(EndOfFile, pos + 1)
           [] tok.type = "RightBracket" ->
                IF ~HasNext(t, pos + 1) THEN Panic(pos + 1) ELSE Ok(params, pos + 2)
           [] OTHER ->
                Try(IdentifierParse(t, pos + 1), LAMBDA r :
                    FunctionParams(t, pos + 1, Append(params, r.node)))

\* Function::parse's body loop.
FunctionBody(t, pos, body) ==
    LET tok == current_token(t, pos) IN
    CASE tok.type = "EOF" -> Err(EndOfFile, pos)
      [] tok.type \in Separators ->
           IF ~HasNext(t, pos) THEN Panic(pos) ELSE FunctionBody(t, pos + 1, body)
      [] tok.type = "BlockEnd" ->
           IF ~HasNext(t, pos) THEN Panic(pos) ELSE Ok(body, pos + 1)
      [] OTHER ->
           Try(StatementParse(t, pos), LAMBDA r :
               IF ~HasNext(t, r.pos) THEN Panic(r.pos)
               ELSE IF current_token(t, r.pos).type = "BlockEnd"
               THEN Ok(Append(body, r.node), r.pos + 1)
               ELSE FunctionBody(t, r.pos + 1, Append(body, r.node)))

\* Function::parse's parameter list, entered with the cursor on the `{`.
FunctionHead(t, pos) ==
    IF peeked(t, pos).type # "LeftBracket" THEN Ok(<<>>, pos + 1)
    ELSE IF ~HasNext(t, pos + 1) THEN Panic(pos + 1)
    ELSE LET tok == peeked(t, pos + 1) IN
         CASE tok.type = "EOF" -> Err(EndOfFile, pos + 2)
           [] tok.type = "RightBracket" ->
                IF ~HasNext(t, pos + 2) THEN Panic(pos + 2)
                ELSE Ok(<<>>, pos + 3)
           [] OTHER ->
                Try(IdentifierParse(t, pos + 2), LAMBDA r :
                    FunctionParams(t, pos + 2, <<r.node>>))

\* Function::parse, entered with the cursor on the `{`.
FunctionParse(t, pos) ==
    IF ~HasNext(t, pos) THEN Panic(pos)
    ELSE Try(FunctionHead(t, pos), LAMBDA params :
         Try(FunctionBody(t, params.pos, <<>>), LAMBDA body :
             Ok(Function(params.node, body.node), body.pos)))

\* Assign::parse, entered with the cursor on the `=`.
AssignParse(t, pos) ==
    IF ~HasNext(t, pos) THEN Panic(pos)
    ELSE Try(IdentifierParse(t, pos + 1), LAMBDA name :
         IF ~HasNext(t, pos + 1) THEN Panic(pos + 1)
         ELSE Try(ExpressionParse(t, pos + 2), LAMBDA val :
              IF ~HasNext(t, val.pos) THEN Panic(val.pos)
              ELSE IF peeked(t, val.pos).type \in StatementEnd
              THEN Ok(AssignNode(name.node, val.node), val.pos)
              ELSE Err(Unexpected(peeked(t, val.pos)), val.pos)))

\* The statement loops of If::parse: the consequence's (twice = FALSE) and
\* the alternative's (twice = TRUE), which calls next_token twice on `}`.
IfBlock(t, pos, stmts, twice) ==
    IF ~HasNext(t, pos) THEN Panic(pos)
    ELSE LET tok == peeked(t, pos) IN
         CASE tok.type = "EOF" -> Err(EndOfFile, pos)
           [] tok.type \in Separators -> IfBlock(t, pos + 1, stmts, twice)
           [] tok.type = "BlockEnd" ->
                IF ~twice THEN Ok(stmts, pos + 1)
                ELSE IF ~HasNext(t, pos + 1) THEN Panic(pos + 1)
                ELSE Ok(stmts, pos + 2)
           [] OTHER ->
                Try(StatementParse(t, pos + 1), LAMBDA r :
                    IfBlock(t, r.pos, Append(stmts, r.node), twice))

\* If::parse's `while` loop over the separators that follow the consequence.
RECURSIVE SkipSeparators(_, _)
SkipSeparators(t, pos) ==
    IF ~HasNext(t, pos) THEN Panic(pos)
    ELSE IF peeked(t, pos).type \in Separators THEN SkipSeparators(t, pos + 1)
    ELSE Ok(<<>>, pos)

\* If::parse after the consequence and the separators behind it: the `}`
\* that ends the statement, or `else` and the alternative.
IfTail(t, pos, cond, cons) ==
    LET tok == peeked(t, pos) IN
    CASE tok.type = "BlockEnd" -> Ok(IfNode(cond, cons, None), pos + 1)
      [] tok.type = "Else" ->
           IF ~HasNext(t, pos + 1) THEN Panic(pos + 1)
           ELSE IF peeked(t, pos + 1).type # "BlockStart"
           THEN Err(<<"expected block start; got ">>
                      \o TokenDisplay(peeked(t, pos + 1)), pos + 2)
           ELSE Try(IfBlock(t, pos + 2, <<>>, TRUE), LAMBDA alt :
                    Ok(IfNode(cond, cons, Some(alt.node)), alt.pos))
      [] OTHER ->
           Err(<<"expected block end or else statement; got ">> \o TokenDisplay(tok),
               pos)

\* If::parse, entered with the cursor on the `if`.
IfParse(t, pos) ==
    IF ~HasNext(t, pos) THEN Panic(pos)
    ELSE Try(ExpressionParse(t, pos + 1), LAMBDA cond :
         IF ~HasNext(t, cond.pos) THEN Panic(cond.pos)
         ELSE IF peeked(t, cond.pos).type # "BlockStart"
         THEN Err(<<"expected block start; got ">>
                    \o TokenDisplay(peeked(t, cond.pos)), cond.pos + 1)
         ELSE Try(IfBlock(t, cond.pos + 1, <<>>, FALSE), LAMBDA cons :
              Try(SkipSeparators(t, cons.pos), LAMBDA skip :
                  IfTail(t, skip.pos, cond.node, cons.node))))

\* Statement::parse.
StatementParse(t, pos) ==
    LET tok == current_token(t, pos) IN
    CASE tok.type = "Assign" -> AssignParse(t, pos)
      [] tok.type = "If" -> IfParse(t, pos)
      [] OTHER ->
           Try(ExpressionParse(t, pos), LAMBDA r :
               Ok(ExpressionStatement(r.node), r.pos))

\* Program::parse's loop.
ProgramLoop(t, pos, statements) ==
    LET tok == current_token(t, pos) IN
    CASE tok.type = "EOF" -> Ok(statements, pos)
      [] tok.type \in Separators ->
           IF ~HasNext(t, pos) THEN Panic(pos) ELSE ProgramLoop(t, pos + 1, statements)
      [] OTHER ->
           Try(StatementParse(t, pos), LAMBDA r :
               IF current_token(t, r.pos).type = "EOF"
               THEN Ok(Append(statements, r.node), r.pos)
               ELSE IF ~HasNext(t, r.pos) THEN Panic(r.pos)
               ELSE ProgramLoop(t, r.pos + 1, Append(statements, r.node)))

\* Parser::new(tokens).parse(): Program::parse with the cursor at 0, whose
\* current_token() indexes tokens[0].
ProgramParse(t) == IF t = <<>> THEN Panic(0) ELSE ProgramLoop(t, 0, <<>>)

(***************************************************************************)
(* f64's operators: the exact result of two finite operands, rounded; the  *)
(* sign of a zero result and the results on infinities and NaN as IEEE 754 *)
(* has them.                                                               *)
(***************************************************************************)
\* f64's ==: NaN equals nothing, 0.0 equals -0.0.
FloatEq(p, q) == ~IsNaN(p) /\ ~IsNaN(q) /\ (p = q \/ (IsZeroF(p) /\ IsZeroF(q)))
\* f64's unary -.
FloatNeg(q) ==
    IF IsNaN(q) THEN NaN
    ELSE IF IsZeroF(q) THEN Zero(~Negative(q))
    ELSE <<-q[1], q[2]>>
\* f64's +.
FloatAdd(p, q) ==
    IF IsNaN(p) \/ IsNaN(q) THEN NaN
    ELSE IF IsInf(p) /\ IsInf(q) THEN (IF p = q THEN p ELSE NaN)
    ELSE IF IsInf(p) THEN p
    ELSE IF IsInf(q) THEN q
    ELSE IF IsZeroF(p) /\ IsZeroF(q) THEN Zero(Negative(p) /\ Negative(q))
    ELSE IF IsZeroF(p) THEN q
    ELSE IF IsZeroF(q) THEN p
    ELSE IF p[1] * q[2] + q[1] * p[2] = 0 THEN Zero(FALSE)
    ELSE RoundF64(p[1] * q[2] + q[1] * p[2] < 0,
                  Abs(p[1] * q[2] + q[1] * p[2]), p[2] * q[2])
\* f64's -.
FloatSub(p, q) == FloatAdd(p, FloatNeg(q))
\* f64's *.
FloatMul(p, q) ==
    IF IsNaN(p) \/ IsNaN(q) THEN NaN
    ELSE IF (IsInf(p) /\ IsZeroF(q)) \/ (IsZeroF(p) /\ IsInf(q)) THEN NaN
    ELSE IF IsInf(p) \/ IsInf(q) THEN Infinity(Negative(p) # Negative(q))
    ELSE IF IsZeroF(p) \/ IsZeroF(q) THEN Zero(Negative(p) # Negative(q))
    ELSE RoundF64(Negative(p) # Negative(q), Abs(p[1]) * Abs(q[1]), p[2] * q[2])
\* f64's /.
FloatDiv(p, q) ==
    IF IsNaN(p) \/ IsNaN(q) THEN NaN
    ELSE IF (IsInf(p) /\ IsInf(q)) \/ (IsZeroF(p) /\ IsZeroF(q)) THEN NaN
    ELSE IF IsInf(p) \/ IsZeroF(q) THEN Infinity(Negative(p) # Negative(q))
    ELSE IF IsInf(q) \/ IsZeroF(p) THEN Zero(Negative(p) # Negative(q))
    ELSE RoundF64(Negative(p) # Negative(q), Abs(p[1]) * q[2], p[2] * Abs(q[1]))

\* i64's `/` on a divisor that is not 0 and a quotient that is an i64: the
\* quotient rounded toward zero.
IntDiv(a, b) == Sign(a) * Sign(b) * (Abs(a) \div Abs(b))

(***************************************************************************)
(* The evaluator (eval/mod.rs, eval/value.rs, eval/ops.rs).  A Value is a  *)
(* primitive [kind, v] or a function [kind |-> "function", params, body].  *)
(* An evaluation returns [st, val, msg, scope]: st is "ok" with the Value, *)
(* "err" with the Error's message, or "panic" with the panic's; scope is   *)
(* the scope that was passed as `&mut Scope`, as the evaluation left it.   *)
(* Evaluator::eval has one more: "nobuild", for a statement its match has  *)
(* no arm for.                                                             *)
(***************************************************************************)
Value(v, scope) == [st |-> "ok", val |-> v, msg |-> <<>>, scope |-> scope]
Error(msg, scope) == [st |-> "err", val |-> Null, msg |-> msg, scope |-> scope]
Abort(msg, scope) == [st |-> "panic", val |-> Null, msg |-> msg, scope |-> scope]

\* Scope::new: an empty store and no outer scope.
EmptyStore == [k \in {} |-> Null]
ScopeNew == [store |-> EmptyStore, outer |-> None]

\* ScopeGet with the outer scopes asked before the scope's own store.
RECURSIVE ScopeGetOuterFirst(_, _)
ScopeGetOuterFirst(scope, key) ==
    LET up == IF scope.outer # None THEN ScopeGetOuterFirst(scope.outer[1], key)
              ELSE None
    IN  IF up # None THEN up
        ELSE IF key \in DOMAIN scope.store THEN Some(scope.store[key])
        ELSE None

\* Scope::get: the store first, then the outer scopes.
RECURSIVE ScopeGet(_, _)
ScopeGet(scope, key) ==
    IF key \in DOMAIN scope.store THEN Some(scope.store[key])
    ELSE IF scope.outer # None THEN ScopeGet(scope.outer[1], key)
    ELSE None

\* Scope::set: store.insert on this scope's own store.
ScopeSet(scope, key, val) ==
    [scope EXCEPT !.store = [k \in DOMAIN scope.store \cup {key} |->
                                IF k = key THEN val ELSE scope.store[k]]]

\* ChildScope without the caller's scope behind it.
ChildScopeDetached(scope) == [store |-> EmptyStore, outer |-> None]

\* eval_call's child: an empty store over a clone of the caller's scope.
ChildScope(scope) == [store |-> EmptyStore, outer |-> Some(scope)]

\* eval_operator_equal.
RECURSIVE EqualLoop(_, _, _, _)
EqualLoop(first, vals, i, r) ==
    IF i > Len(vals) THEN [st |-> "ok", val |-> Boolean(r), msg |-> <<>>]
    ELSE LET arg == vals[i] IN
         IF first.kind = "null"
         THEN EqualLoop(first, vals, i + 1, arg.kind = "null")
         ELSE IF arg.kind = first.kind
         THEN EqualLoop(first, vals, i + 1,
                        IF first.kind = "float" THEN FloatEq(first.v, arg.v)
                        ELSE first.v = arg.v)
         ELSE IF arg.kind = "null" THEN EqualLoop(first, vals, i + 1, FALSE)
         ELSE [st |-> "err", val |-> Null,
               msg |-> <<"cannot compare type ", first.kind, " with type ", arg.kind>>]

\* eval_operator_equal with the comparison starting one argument late.
eval_operator_equal_skip2(vals) == EqualLoop(vals[1], vals, 3, FALSE)

eval_operator_equal(vals) == EqualLoop(vals[1], vals, 2, FALSE)

\* `a + b`, `a - b` or `a * b` before it is fitted into an i64.
IntOp(op, a, b) ==
    CASE op = "add" -> a + b
      [] op = "subtract" -> a - b
      [] op = "multiply" -> a * b
FloatOp(op, p, q) ==
    CASE op = "add" -> FloatAdd(p, q)
      [] op = "subtract" -> FloatSub(p, q)
      [] op = "multiply" -> FloatMul(p, q)

\* The fold of eval_operator_add, _subtract and _multiply: every argument
\* must be of the first one's kind; acc is the running result.  An integer
\* result that is no i64 panics in a build that checks overflow and is
\* wrapped around in one that does not.
RECURSIVE ArithLoop(_, _, _, _, _)
ArithLoop(op, first, vals, i, acc) ==
    IF i > Len(vals) THEN [st |-> "ok", val |-> [kind |-> first.kind, v |-> acc],
                           msg |-> <<>>]
    ELSE LET arg == vals[i] IN
         IF arg.kind # first.kind
         THEN [st |-> "err", val |-> Null,
               msg |-> <<"cannot ", op, " type ", first.kind, " with type ", arg.kind>>]
         ELSE IF first.kind = "integer" /\ ~InI64(IntOp(op, acc, arg.v))
         THEN IF build.overflow_checks
              THEN [st |-> "panic", val |-> Null,
                    msg |-> <<"attempt to ", op, " with overflow">>]
              ELSE ArithLoop(op, first, vals, i + 1, WrapI64(IntOp(op, acc, arg.v)))
         ELSE ArithLoop(op, first, vals, i + 1,
                CASE first.kind = "integer" -> IntOp(op, acc, arg.v)
                  [] first.kind = "float" -> FloatOp(op, acc, arg.v)
                  [] first.kind = "string" -> acc \o arg.v)

\* The first index from i on of a value whose kind is not k, or 0.
RECURSIVE OtherKind(_, _, _)
OtherKind(k, vals, i) ==
    IF i > Len(vals) THEN 0
    ELSE IF vals[i].kind # k THEN i
    ELSE OtherKind(k, vals, i + 1)

\* What `res.iter().sum()` folds from: 0 for i64, the build's zero for f64.
SumStart(k) == IF k = "integer" THEN 0 ELSE build.sum_zero

CannotType(op, first) ==
    [st |-> "err", val |-> Null, msg |-> <<"cannot ", op, " type ", first.kind>>]

\* eval_operator_add with the fold starting one argument late.
eval_operator_add_skip2(vals) ==
    IF vals[1].kind \in {"integer", "float", "string"}
    THEN ArithLoop("add", vals[1], vals, 3, vals[1].v)
    ELSE CannotType("add", vals[1])

\* eval_operator_add: the numbers are collected, which finds an argument of
\* another kind, and then summed; a string is appended to as it goes.
eval_operator_add(vals) ==
    IF vals[1].kind \notin {"integer", "float", "string"}
    THEN CannotType("add", vals[1])
    ELSE IF vals[1].kind = "string"
    THEN ArithLoop("add", vals[1], vals, 2, vals[1].v)
    ELSE IF OtherKind(vals[1].kind, vals, 2) # 0
    THEN [st |-> "err", val |-> Null,
          msg |-> <<"cannot add type ", vals[1].kind, " with type ",
                    vals[OtherKind(vals[1].kind, vals, 2)].kind>>]
    ELSE ArithLoop("add", vals[1], vals, 1, SumStart(vals[1].kind))

eval_operator_subtract(vals) ==
    IF vals[1].kind \in {"integer", "float"}
    THEN ArithLoop("subtract", vals[1], vals, 2, vals[1].v)
    ELSE CannotType("subtract", vals[1])

eval_operator_multiply(vals) ==
    IF vals[1].kind \in {"integer", "float"}
    THEN ArithLoop("multiply", vals[1], vals, 2, vals[1].v)
    ELSE CannotType("multiply", vals[1])

\* eval_operator_divide's fold: val is the accumulator.
RECURSIVE DivideLoop(_, _, _, _, _)
DivideLoop(first, vals, i, val, has_zero) ==
    IF i > Len(vals) THEN [st |-> "ok", val |-> [kind |-> first.kind, v |-> val],
                           msg |-> <<>>]
    ELSE LET arg == vals[i]
             int == first.kind = "integer"
             zero == IF int THEN 0 ELSE <<0, 1>>
             one == IF int THEN 1 ELSE <<1, 1>>
             Eq(a, b) == IF int THEN a = b ELSE FloatEq(a, b)
         IN  IF arg.kind # first.kind
             THEN [st |-> "err", val |-> Null,
                   msg |-> <<"cannot divide type ", first.kind, " with type ", arg.kind>>]
             ELSE IF Eq(arg.v, zero) /\ (has_zero \/ Eq(val, zero))
             THEN [st |-> "err", val |-> Null,
                   msg |-> IF int THEN <<"cannot divide 0 by 0">>
                           ELSE <<"cannot divide 0.0 by 0.0">>]
             ELSE IF Eq(arg.v, zero) /\ Eq(val, one)
             THEN [st |-> "err", val |-> Null, msg |-> <<"infinity division">>]
             ELSE IF int /\ arg.v = 0
             THEN \* val /= 0 on an i64
                  [st |-> "panic", val |-> Null, msg |-> <<"attempt to divide by zero">>]
             ELSE IF int /\ arg.v = -1 /\ ~InI64(-val)
             THEN \* i64::MIN / -1
                  [st |-> "panic", val |-> Null,
                   msg |-> <<"attempt to divide with overflow">>]
             ELSE DivideLoop(first, vals, i + 1,
                             IF int THEN IntDiv(val, arg.v) ELSE FloatDiv(val, arg.v),
                             has_zero \/ Eq(arg.v, zero))

\* eval_operator_divide with has_zero's first value inverted.
eval_operator_divide_inverted(vals) ==
    IF vals[1].kind \in {"integer", "float"}
    THEN DivideLoop(vals[1], vals, 2, vals[1].v,
                    IF vals[1].kind = "integer" THEN vals[1].v # 0
                    ELSE ~FloatEq(vals[1].v, <<0, 1>>))
    ELSE CannotType("divide", vals[1])

eval_operator_divide(vals) ==
    IF vals[1].kind \in {"integer", "float"}
    THEN DivideLoop(vals[1], vals, 2, vals[1].v,
                    IF vals[1].kind = "integer" THEN vals[1].v = 0
                    ELSE FloatEq(vals[1].v, <<0, 1>>))
    ELSE CannotType("divide", vals[1])

\* eval_operator's dispatch on op.kind, once the arguments are evaluated.
ApplyOperator(k, vals) ==
    CASE k = "equal" -> eval_operator_equal(vals)
      [] k = "add" -> eval_operator_add(vals)
      [] k = "subtract" -> eval_operator_subtract(vals)
      [] k = "multiply" -> eval_operator_multiply(vals)
      [] k = "divide" -> eval_operator_divide(vals)

RECURSIVE eval_expr(_, _), eval_assign(_, _), eval_if_condition(_, _),
          eval_call(_, _), eval_operator(_, _), OperatorValues(_, _, _, _),
          LogicValues(_, _, _, _), BranchLoop(_, _, _), BindParams(_, _, _, _),
          BodyLoop(_, _, _, _)

\* Value::eval_assign.
eval_assign(a, scope) ==
    LET r == eval_expr(a.value, scope) IN
    IF r.st # "ok" THEN r
    ELSE Value(r.val, ScopeSet(r.scope, a.name, r.val))

\* A branch of an If: its statements run in order in the If's scope, their
\* values dropped.
BranchLoop(stmts, i, scope) ==
    IF i > Len(stmts) THEN Value(Null, scope)
    ELSE LET stmt == stmts[i]
             r == CASE stmt.s = "Assign" -> eval_assign(stmt, scope)
                    [] stmt.s = "If" -> eval_if_condition(stmt, scope)
                    [] stmt.s = "Expression" -> eval_expr(stmt.expr, scope)
         IN  IF r.st # "ok" THEN r ELSE BranchLoop(stmts, i + 1, r.scope)

\* Value::eval_if_condition with integer 0 taken as false.
eval_if_condition_zero_false(i, scope) ==
    LET c == eval_expr(i.condition, scope) IN
    IF c.st # "ok" THEN c
    ELSE IF c.val.kind = "function"
    THEN Error(<<"cannot use type function as a condition">>, c.scope)
    ELSE LET condition == CASE c.val.kind = "boolean" -> c.val.v
                            [] c.val.kind = "null" -> FALSE
                            [] c.val.kind = "integer" -> c.val.v # 0
                            [] OTHER -> TRUE
         IN  IF condition THEN BranchLoop(i.consequence, 1, c.scope)
             ELSE IF i.alternative # None THEN BranchLoop(i.alternative[1], 1, c.scope)
             ELSE Value(Null, c.scope)

\* Value::eval_if_condition.
eval_if_condition(i, scope) ==
    LET c == eval_expr(i.condition, scope) IN
    IF c.st # "ok" THEN c
    ELSE IF c.val.kind = "function"
    THEN Error(<<"cannot use type function as a condition">>, c.scope)
    ELSE LET condition == CASE c.val.kind = "boolean" -> c.val.v
                            [] c.val.kind = "null" -> FALSE
                            [] OTHER -> TRUE
         IN  IF condition THEN BranchLoop(i.consequence, 1, c.scope)
             ELSE IF i.alternative # None THEN BranchLoop(i.alternative[1], 1, c.scope)
             ELSE Value(Null, c.scope)

\* LogicValues leaving the loop at the first operand that is false.
LogicValuesStopAtFalse(args, i, vals, scope) ==
    IF i > Len(args) \/ (vals # <<>> /\ vals[Len(vals)] = Boolean(FALSE))
    THEN Value(vals, scope)
    ELSE LET r == eval_expr(args[i], scope) IN
         IF r.st # "ok" THEN r ELSE LogicValues(args, i + 1, Append(vals, r.val), r.scope)

\* The values of And's and Or's operands, every one evaluated, in order.
LogicValues(args, i, vals, scope) ==
    IF i > Len(args) THEN Value(vals, scope)
    ELSE LET r == eval_expr(args[i], scope) IN
         IF r.st # "ok" THEN r ELSE LogicValues(args, i + 1, Append(vals, r.val), r.scope)

\* Value::eval_logic_and.
eval_logic_and(args, scope) ==
    LET r == LogicValues(args, 1, <<>>, scope) IN
    IF r.st # "ok" THEN r
    ELSE Value(Boolean(~\E j \in 1..Len(r.val) :
                          \/ r.val[j].kind = "null"
                          \/ r.val[j].kind = "boolean" /\ ~r.val[j].v),
               r.scope)

\* eval_logic_or passing over a function value as it does over false.
eval_logic_or_primitives(args, scope) ==
    LET r == LogicValues(args, 1, <<>>, scope) IN
    IF r.st # "ok" THEN r
    ELSE Value(Boolean(\E j \in 1..Len(r.val) :
                         /\ r.val[j].kind \notin {"null", "function"}
                         /\ ~(r.val[j].kind = "boolean" /\ ~r.val[j].v)),
               r.scope)

\* Value::eval_logic_or.
eval_logic_or(args, scope) ==
    LET r == LogicValues(args, 1, <<>>, scope) IN
    IF r.st # "ok" THEN r
    ELSE Value(Boolean(\E j \in 1..Len(r.val) :
                         /\ r.val[j].kind # "null"
                         /\ ~(r.val[j].kind = "boolean" /\ ~r.val[j].v)),
               r.scope)

\* eval_operator's argument loop: every argument must be a Primitive.
OperatorValues(args, i, vals, scope) ==
    IF i > Len(args) THEN Value(vals, scope)
    ELSE LET r == eval_expr(args[i], scope) IN
         IF r.st # "ok" THEN r
         ELSE IF r.val.kind = "function"
         THEN Error(<<"cannot compare type ", "function">>, r.scope)
         ELSE OperatorValues(args, i + 1, Append(vals, r.val), r.scope)

\* eval_operator counting the arguments only after it has evaluated them.
eval_operator_count_late(op, scope) ==
    IF op.kind = "inverse"
    THEN IF Len(op.args) # 1
         THEN Error(<<"expected exactly one argument for inverse operator">>, scope)
         ELSE LET r == eval_expr(op.args[1], scope) IN
              IF r.st # "ok" THEN r
              ELSE IF r.val.kind = "boolean" THEN Value(Boolean(~r.val.v), r.scope)
              ELSE Error(<<"cannot inverse type ", r.val.kind>>, r.scope)
    ELSE LET r == OperatorValues(op.args, 1, <<>>, scope) IN
         IF r.st # "ok" THEN r
         ELSE IF Len(op.args) < 2
         THEN Error(<<"expected at least 2 arguments for ", op.kind, " operator">>, scope)
         ELSE LET o == ApplyOperator(op.kind, r.val) IN
              [st |-> o.st, val |-> o.val, msg |-> o.msg, scope |-> r.scope]

\* ops::eval_operator.
eval_operator(op, scope) ==
    IF op.kind = "inverse"
    THEN IF Len(op.args) # 1
         THEN Error(<<"expected exactly one argument for inverse operator">>, scope)
         ELSE LET r == eval_expr(op.args[1], scope) IN
              IF r.st # "ok" THEN r
              ELSE IF r.val.kind = "boolean" THEN Value(Boolean(~r.val.v), r.scope)
              ELSE Error(<<"cannot inverse type ", r.val.kind>>, r.scope)
    ELSE IF Len(op.args) < 2
    THEN Error(<<"expected at least 2 arguments for ", op.kind, " operator">>, scope)
    ELSE LET r == OperatorValues(op.args, 1, <<>>, scope) IN
         IF r.st # "ok" THEN r
         ELSE LET o == ApplyOperator(op.kind, r.val) IN
              [st |-> o.st, val |-> o.val, msg |-> o.msg, scope |-> r.scope]

\* BindParams evaluating every argument in the caller's scope.
BindParamsCallerArgs(params, args, i, child) ==
    IF i > Len(params) \/ i > Len(args) THEN Value(Null, child)
    ELSE LET r == eval_expr(args[i], child.outer[1]) IN
         IF r.st # "ok" THEN r
         ELSE BindParams(params, args, i + 1, ScopeSet(child, params[i], r.val))

\* eval_call's parameter loop: zip(params, args), each argument evaluated
\* in the child and bound there before the next is evaluated.
BindParams(params, args, i, child) ==
    IF i > Len(params) \/ i > Len(args) THEN Value(Null, child)
    ELSE LET r == eval_expr(args[i], child) IN
         IF r.st # "ok" THEN r
         ELSE BindParams(params, args, i + 1, ScopeSet(r.scope, params[i], r.val))

\* BodyLoop going on to the next statement after one that failed.
BodyLoopKeepGoing(body, i, child, last) ==
    IF i > Len(body) THEN Value(last, child)
    ELSE LET stmt == body[i]
             r == CASE stmt.s = "Assign" -> eval_assign(stmt, child)
                    [] stmt.s = "If" -> eval_if_condition(stmt, child)
                    [] stmt.s = "Expression" -> eval_expr(stmt.expr, child)
         IN  IF r.st # "ok" THEN BodyLoop(body, i + 1, child, last)
             ELSE BodyLoop(body, i + 1, r.scope, r.val)

\* eval_call's body loop: result is the value of the last statement run.
BodyLoop(body, i, child, last) ==
    IF i > Len(body) THEN Value(last, child)
    ELSE LET stmt == body[i]
             r == CASE stmt.s = "Assign" -> eval_assign(stmt, child)
                    [] stmt.s = "If" -> eval_if_condition(stmt, child)
                    [] stmt.s = "Expression" -> eval_expr(stmt.expr, child)
         IN  IF r.st # "ok" THEN r ELSE BodyLoop(body, i + 1, r.scope, r.val)

\* eval_call handing the child scope back to the caller as its scope.
eval_call_keeps_child(call, scope) ==
    LET found == ScopeGet(scope, call.name) IN
    IF found = None
    THEN Error(<<"undefined function variable ">> \o call.name, scope)
    ELSE LET fun == found[1] IN
    IF fun.kind # "function"
    THEN Error(<<"cannot call type ", fun.kind, " as a function">>, scope)
    ELSE IF /\ Len(call.args) # Len(fun.params)
            /\ Len(call.args) = 1 /\ Len(fun.params) = 0
            /\ ~(call.args[1].e = "Primitive" /\ call.args[1].prim.kind = "null")
    THEN Error(<<"function ">> \o call.name \o <<" can only be called with ()">>, scope)
    ELSE IF /\ Len(call.args) # Len(fun.params)
            /\ ~(Len(call.args) = 1 /\ Len(fun.params) = 0)
    THEN Error(<<"expected ", ToString(Len(fun.params)), " arguments to function ">>
                 \o call.name, scope)
    ELSE LET bound == BindParams(fun.params, call.args, 1, ChildScope(scope)) IN
         IF bound.st # "ok" THEN bound
         ELSE BodyLoop(fun.body, 1, bound.scope, Null)

\* eval_call taking any one argument for a function without parameters.
eval_call_any_argument(call, scope) ==
    LET found == ScopeGet(scope, call.name) IN
    IF found = None
    THEN Error(<<"undefined function variable ">> \o call.name, scope)
    ELSE LET fun == found[1] IN
    IF fun.kind # "function"
    THEN Error(<<"cannot call type ", fun.kind, " as a function">>, scope)
    ELSE IF /\ Len(call.args) # Len(fun.params)
            /\ ~(Len(call.args) = 1 /\ Len(fun.params) = 0)
    THEN Error(<<"expected ", ToString(Len(fun.params)), " arguments to function ">>
                 \o call.name, scope)
    ELSE LET bound == BindParams(fun.params, call.args, 1, ChildScope(scope)) IN
         IF bound.st # "ok" THEN [bound EXCEPT !.scope = scope]
         ELSE LET r == BodyLoop(fun.body, 1, bound.scope, Null) IN
              [r EXCEPT !.scope = scope]

\* Value::eval_call.  The caller's scope is only read and cloned.
eval_call(call, scope) ==
    LET found == ScopeGet(scope, call.name) IN
    IF found = None
    THEN Error(<<"undefined function variable ">> \o call.name, scope)
    ELSE LET fun == found[1] IN
    IF fun.kind # "function"
    THEN Error(<<"cannot call type ", fun.kind, " as a function">>, scope)
    ELSE IF /\ Len(call.args) # Len(fun.params)
            /\ Len(call.args) = 1 /\ Len(fun.params) = 0
            /\ ~(call.args[1].e = "Primitive" /\ call.args[1].prim.kind = "null")
    THEN Error(<<"function ">> \o call.name \o <<" can only be called with ()">>, scope)
    ELSE IF /\ Len(call.args) # Len(fun.params)
            /\ ~(Len(call.args) = 1 /\ Len(fun.params) = 0)
    THEN Error(<<"expected ", ToString(Len(fun.params)), " arguments to function ">>
                 \o call.name, scope)
    ELSE LET bound == BindParams(fun.params, call.args, 1, ChildScope(scope)) IN
         IF bound.st # "ok" THEN [bound EXCEPT !.scope = scope]
         ELSE LET r == BodyLoop(fun.body, 1, bound.scope, Null) IN
              [r EXCEPT !.scope = scope]

\* Value::eval_expr.
eval_expr(e, scope) ==
    CASE e.e = "Primitive" -> Value(e.prim, scope)
      [] e.e = "Identifier" ->
           LET found == ScopeGet(scope, e.name) IN
           IF found # None THEN Value(found[1], scope)
           ELSE Error(<<"undefined variable ">> \o e.name, scope)
      [] e.e = "Operator" -> eval_operator(e, scope)
      [] e.e = "Function" -> Value(e.fun, scope)
      [] e.e = "Call" -> eval_call(e, scope)
      [] e.e = "And" -> eval_logic_and(e.args, scope)
      [] e.e = "Or" -> eval_logic_or(e.args, scope)

\* A `match stmt` with an arm for Statement::Assign, an arm for
\* Statement::Expression and none for Statement::If (eval/mod.rs:27): rustc
\* rejects the match (E0004), so no build takes an If through it.
NoArm == <<"non-exhaustive patterns: &Statement::If(_) not covered">>

\* Evaluator::eval's loop.  An If statement among the statements has no
\* outcome: the result is "nobuild", which is neither a value nor an Error
\* nor a panic of a run.
RECURSIVE EvalLoop(_, _, _, _)
EvalLoop(statements, i, scope, last) ==
    IF i > Len(statements) THEN Value(last, scope)
    ELSE LET stmt == statements[i] IN
         CASE stmt.s = "Assign" ->
                LET r == eval_assign(stmt, scope) IN
                IF r.st # "ok" THEN r ELSE EvalLoop(statements, i + 1, r.scope, r.val)
           [] stmt.s = "Expression" ->
                LET r == eval_expr(stmt.expr, scope) IN
                IF r.st # "ok" THEN r ELSE EvalLoop(statements, i + 1, r.scope, r.val)
           [] stmt.s = "If" ->
                [st |-> "nobuild", val |-> Null, msg |-> NoArm, scope |-> scope]

\* Evaluator::new(program).eval(): a fresh Scope, result Null at the start.
EvaluatorEval(statements) == EvalLoop(statements, 1, ScopeNew, Null)

(***************************************************************************)
(* The source texts the driver is run on.                                  *)
(***************************************************************************)
\* Every digit sequence of 1..MaxDigits digits.
IntLiteralSrcs == UNION {[1..n -> Digits] : n \in 1..MaxDigits}

\* Longer literals inside the range of i64: nine digits, and twenty-two of
\* which twenty are leading zeros.
LongLiteralSrcs ==
    {<<"1", "2", "3", "4", "5", "6", "7", "8", "9">>,
     [i \in 1..20 |-> "0"] \o <<"4", "2">>}

\* Literals above i64::MAX: i64::MAX + 1, and twenty digits.
TooLargeSrcs ==
    {[MaxI64Digits EXCEPT ![Len(MaxI64Digits)] = "8"], [i \in 1..20 |-> "9"]}

\* Literals used where a text takes a value: the text and the value it denotes.
Literals ==
    {[src |-> <<"1">>, val |-> Integer(1)],
     [src |-> <<"2">>, val |-> Integer(2)],
     [src |-> <<"\"", "s", "\"">>, val |-> String(<<"s">>)],
     [src |-> <<"t", "r", "u", "e">>, val |-> Boolean(TRUE)],
     [src |-> <<"(", ")">>, val |-> Null]}

\* `= f { [a b] + a b }`
DefineF ==
    <<"=", " ", "f", " ", "{", " ", "[", "a", " ", "b", "]", " ", "+", " ",
      "a", " ", "b", " ", "}">>
\* `f 2 3`, `f 2`, `f 2 3 4`
CallF23 == <<"f", " ", "2", " ", "3">>
CallF2 == <<"f", " ", "2">>
CallF234 == <<"f", " ", "2", " ", "3", " ", "4">>
\* What may stand between two statements.
StatementBreaks == {<<"\n">>, <<";">>, <<"\n", "\n">>, <<";", ";">>}

\* The definition of f alone, and followed by a call of f.
AritySrcs ==
    {DefineF}
    \cup {DefineF \o sep \o call :
            sep \in StatementBreaks, call \in {CallF23, CallF2, CallF234}}

\* `= v A;= f { v; };;= v B;f ()`: f reads the free name v.
DynScopeSrc(a, b) ==
    <<"=", " ", "v", " ">> \o a \o <<";">>
    \o <<"=", " ", "f", " ", "{", " ", "v", ";", " ", "}", ";", ";">>
    \o <<"=", " ", "v", " ">> \o b \o <<";">>
    \o <<"f", " ", "(", ")">>
DynScopeSrcs == {DynScopeSrc(a.src, b.src) : a \in Literals, b \in Literals}

\* `if C { = x 1 } else { = x 2 }` and a read of x on the next line;
\* sep is what stands between each assignment and its `}`.
IfElseSrc(cond, sep) ==
    <<"i", "f", " ">> \o cond
    \o <<" ", "{", " ", "=", " ", "x", " ", "1">> \o sep \o <<" ", "}">>
    \o <<" ", "e", "l", "s", "e">>
    \o <<" ", "{", " ", "=", " ", "x", " ", "2">> \o sep \o <<" ", "}">>
    \o <<"\n", "x">>
True == <<"t", "r", "u", "e">>
False == <<"f", "a", "l", "s", "e">>
IfElseSrcs == {IfElseSrc(c, sep) : c \in {True, False}, sep \in {<<>>, <<";">>, <<"\n">>}}

\* `= x A;= f { [p] = x B;= p 3;+ x p };;= r f 9;x`: f assigns the caller's
\* name x and its own parameter p.
ShadowSrc(a, b) ==
    <<"=", " ", "x", " ">> \o a \o <<";">>
    \o <<"=", " ", "f", " ", "{", " ", "[", "p", "]", " ">>
    \o <<"=", " ", "x", " ">> \o b \o <<";">>
    \o <<"=", " ", "p", " ", "3", ";", "+", " ", "x", " ", "p", " ", "}", ";", ";">>
    \o <<"=", " ", "r", " ", "f", " ", "9", ";", "x">>
\* `= x A;= f { [p] = x B;+ x p };;= g { [q] = y f q;+ x y };;= r g 9;x`:
\* g calls f, which assigns x; g then reads x.
NestedF == <<"+", " ", "x", " ", "p", " ", "}", ";", ";">>
NestedG ==
    <<"=", " ", "g", " ", "{", " ", "[", "q", "]", " ", "=", " ", "y", " ",
      "f", " ", "q", ";", "+", " ", "x", " ", "y", " ", "}", ";", ";", "=",
      " ", "r", " ", "g", " ", "9", ";", "x">>
NestedSrc(a, b) ==
    <<"=", " ", "x", " ">> \o a \o <<";">>
    \o <<"=", " ", "f", " ", "{", " ", "[", "p", "]", " ">>
    \o <<"=", " ", "x", " ">> \o b \o <<";">> \o NestedF \o NestedG
SmallInts == {<<"1">>, <<"2">>, <<"4">>}
ShadowSrcs ==
    {ShadowSrc(a, b) : a \in SmallInts, b \in SmallInts}
    \cup {NestedSrc(a, b) : a \in SmallInts, b \in SmallInts}

\* Statements whose evaluation returns an error, with the error's message.
FailingStatements ==
    {[src |-> <<"u">>, msg |-> <<"undefined variable ", "u">>],
     [src |-> <<"/", " ", "1", " ", "0">>, msg |-> <<"infinity division">>],
     [src |-> <<"g", " ", "1">>, msg |-> <<"undefined function variable ", "g">>]}
\* Statements to stand after a failing one: another error, a value, a binding.
Followers == {<<"w">>, <<"2">>, <<"=", " ", "x", " ", "2">>}
\* `= x 1;FAIL;NEXT`
FailInProgram(fail, follow) ==
    <<"=", " ", "x", " ", "1", ";">> \o fail \o <<";">> \o follow
\* `= f { FAIL; NEXT; };;f ()`
FailInBody(fail, follow) ==
    <<"=", " ", "f", " ", "{", " ">> \o fail \o <<";", " ">> \o follow
    \o <<";", " ", "}", ";", ";", "f", " ", "(", ")">>
\* `= f { if true { FAIL; NEXT; } };;f ()`
FailInConsequence(fail, follow) ==
    <<"=", " ", "f", " ", "{", " ", "i", "f", " ", "t", "r", "u", "e", " ", "{", " ">>
    \o fail \o <<";", " ">> \o follow
    \o <<";", " ", "}", " ", "}", ";", ";", "f", " ", "(", ")">>
\* `= f { if false { 1; } else { FAIL; NEXT; }; 3; };;f ()`
FailInAlternative(fail, follow) ==
    <<"=", " ", "f", " ", "{", " ", "i", "f", " ", "f", "a", "l", "s", "e", " ",
      "{", " ", "1", ";", " ", "}", " ", "e", "l", "s", "e", " ", "{", " ">>
    \o fail \o <<";", " ">> \o follow
    \o <<";", " ", "}", ";", " ", "3", ";", " ", "}", ";", ";", "f", " ", "(", ")">>
FailFastSrcs ==
    {FailInProgram(s.src, n) : s \in FailingStatements, n \in Followers}
    \cup {FailInBody(s.src, n) : s \in FailingStatements, n \in Followers}
    \cup {FailInConsequence(s.src, n) : s \in FailingStatements, n \in Followers}
    \cup {FailInAlternative(s.src, n) : s \in FailingStatements, n \in Followers}

\* `= n ();= f { 7; };;f ARGS`: a function without parameters, called.
ZeroParamSrc(args) ==
    <<"=", " ", "n", " ", "(", ")", ";", "=", " ", "f", " ", "{", " ", "7", ";",
      " ", "}", ";", ";", "f", " ">> \o args
\* One argument that is not the literal `()`: a literal, a variable whose
\* value is null, an operator expression.
OtherArguments ==
    {<<"1">>, <<"n">>, <<"\"", "s", "\"">>, <<"f", "a", "l", "s", "e">>,
     <<"(", "+", " ", "1", " ", "2", ")">>}
\* Two arguments and three, the literal `()` among them.
SeveralArguments ==
    {<<"(", ")", " ", "(", ")">>, <<"1", " ", "2">>, <<"(", ")", " ", "n">>,
     <<"(", ")", " ", "1", " ", "n">>}
ZeroParamSrcs ==
    {ZeroParamSrc(a) : a \in {<<"(", ")">>} \cup OtherArguments \cup SeveralArguments}

\* `= x RHS` with what stands after RHS: a right-hand side of every kind.
RightHandSides ==
    {<<"1">>, <<"y">>, <<"+", " ", "1", " ", "2">>, <<"(", "1", ")">>,
     <<"{", " ", "1", ";", " ", "}">>, <<"g", " ", "1">>}
\* A token that may not follow an Assign, with its name in the error.
Closers ==
    {[src |-> <<" ", "}">>, name |-> <<"block end">>],
     [src |-> <<" ", "]">>, name |-> <<"right bracket">>]}
AssignSrc(rhs, follow) == <<"=", " ", "x", " ">> \o rhs \o follow
AssignEndSrcs ==
    {AssignSrc(rhs, f) :
       rhs \in RightHandSides,
       f \in {<<>>, <<";">>, <<"\n">>, <<";", "2">>} \cup {c.src : c \in Closers}}

\* `if true { 2; }` and `if true { 2; } else { 3; }`, with what follows them
\* at top level, and the former inside a function body before a statement.
IfOnly == <<"i", "f", " ", "t", "r", "u", "e", " ", "{", " ", "2", ";", " ", "}">>
IfWithElse ==
    IfOnly \o <<" ", "e", "l", "s", "e", " ", "{", " ", "3", ";", " ", "}">>
IfTails == {<<>>, <<";">>, <<"\n">>, <<";", "4">>, <<"\n", "4">>}
\* `= f { if true { 2; }; 3; };;f ()`
IfInBody ==
    <<"=", " ", "f", " ", "{", " ">> \o IfOnly
    \o <<";", " ", "3", ";", " ", "}", ";", ";", "f", " ", "(", ")">>
IfSrcs ==
    {IfOnly \o tail : tail \in IfTails} \cup {IfWithElse \o tail : tail \in IfTails}
    \cup {IfInBody}

\* An identifier in expression position: before a separator, before
\* arguments, and as a call that ends at `)` or at `}`.
NameAlone == {<<"x">>, <<"x", ";">>, <<"x", "\n">>}
CallWithArgs == {<<"f", " ", "1", " ", "2">>, <<"f", " ", "1", " ", "2", ";", "3">>}
CallInParens == <<"(", "f", " ", "1", ")">>
\* `= g { f 1 };`
CallEndsBlock == <<"=", " ", "g", " ", "{", " ", "f", " ", "1", " ", "}", ";">>
IdentifierSrcs == NameAlone \cup CallWithArgs \cup {CallInParens, CallEndsBlock}

\* A variadic operator whose argument list runs into a token no expression
\* starts with: [op, kind] applied to some integers, then `}` or `]`, then
\* possibly one more integer.
OperatorSigns == {[src |-> "+", kind |-> "add"], [src |-> "*", kind |-> "multiply"]}
GoodArguments ==
    {[src |-> <<>>, ints |-> <<>>],
     [src |-> <<" ", "1">>, ints |-> <<1>>],
     [src |-> <<" ", "1", " ", "2">>, ints |-> <<1, 2>>]}
BadArguments == {"}", "]"}
AfterBad == {<<>>, <<" ", "3">>}
OperatorFailSrc(sign, good, bad, after) ==
    <<sign.src>> \o good.src \o <<" ", bad>> \o after
OperatorFailSrcs ==
    {OperatorFailSrc(sign, good, bad, after) :
        sign \in OperatorSigns, good \in GoodArguments,
        bad \in BadArguments, after \in AfterBad}

\* Conditions of every kind of value, with what the If does with each: run
\* the consequence ("yes"), the alternative ("no"), or refuse ("function").
\* The function literal is followed by `;` because Function::parse leaves the
\* cursor one token past its `}`.
Conditions ==
    {[src |-> <<"t", "r", "u", "e">>, selects |-> "yes"],
     [src |-> <<"f", "a", "l", "s", "e">>, selects |-> "no"],
     [src |-> <<"0">>, selects |-> "yes"],
     [src |-> <<"1">>, selects |-> "yes"],
     [src |-> <<"0", ".", "0">>, selects |-> "yes"],
     [src |-> <<"\"", "\"">>, selects |-> "yes"],
     [src |-> <<"\"", "s", "\"">>, selects |-> "yes"],
     [src |-> <<"(", ")">>, selects |-> "no"],
     [src |-> <<"{", " ", "1", ";", " ", "}", ";">>, selects |-> "function"]}
\* `= f { if COND { a; } };;f ()` and `= f { if COND { a; } else { b; }; };;f ()`:
\* a and b are unbound, so the branch that runs names itself in the error.
ConditionSrc(cond, else) ==
    <<"=", " ", "f", " ", "{", " ", "i", "f", " ">> \o cond
    \o <<" ", "{", " ", "a", ";", " ", "}", " ">>
    \o (IF else THEN <<"e", "l", "s", "e", " ", "{", " ", "b", ";", " ", "}", ";", " ">>
        ELSE <<>>)
    \o <<"}", ";", ";", "f", " ", "(", ")">>
ConditionSrcs == {ConditionSrc(c.src, e) : c \in Conditions, e \in BOOLEAN}

\* An If as the last statement, after a statement with a value of its own,
\* its branches ending in an assignment and in a string.
\* `1;if COND { = x 2; } else { "s"; }`
IfEndsProgram(cond) ==
    <<"1", ";", "i", "f", " ">> \o cond
    \o <<" ", "{", " ", "=", " ", "x", " ", "2", ";", " ", "}", " ", "e", "l",
          "s", "e", " ", "{", " ", "\"", "s", "\"", ";", " ", "}">>
\* `= f { 1; if COND { = x 2; } };;f ()`, or with ` else { "s"; }; ` before the
\* body's `}`.
IfEndsBody(cond, else) ==
    <<"=", " ", "f", " ", "{", " ", "1", ";", " ", "i", "f", " ">> \o cond
    \o <<" ", "{", " ", "=", " ", "x", " ", "2", ";", " ", "}", " ">>
    \o (IF else THEN <<"e", "l", "s", "e", " ", "{", " ", "\"", "s", "\"", ";", " ", "}", ";",
          " ">>
        ELSE <<>>)
    \o <<"}", ";", ";", "f", " ", "(", ")">>
IfLastSrcs ==
    {IfEndsProgram(c) : c \in {True, False}}
    \cup {IfEndsBody(c, e) : c \in {True, False}, e \in BOOLEAN}

\* Operators applied to too few, too many or ill-typed arguments.  u and w
\* are unbound; g is bound to a function by DefineG.
DefineG == <<"=", " ", "g", " ", "{", " ", "1", ";", " ", "}", ";", ";">>
InverseBooleans ==
    {[src |-> <<"!", " ", "t", "r", "u", "e">>, val |-> FALSE],
     [src |-> <<"!", " ", "f", "a", "l", "s", "e">>, val |-> TRUE]}
InverseBadCounts ==
    {<<"!">>, <<"!", " ", "t", "r", "u", "e", " ", "f", "a", "l", "s", "e">>,
     <<"!", " ", "u", " ", "w">>}
InverseNonBooleans ==
    {[src |-> <<"!", " ", "1">>, type |-> "integer"],
     [src |-> <<"!", " ", "0", ".", "5">>, type |-> "float"],
     [src |-> <<"!", " ", "\"", "s", "\"">>, type |-> "string"],
     [src |-> <<"!", " ", "(", ")">>, type |-> "null"],
     [src |-> DefineG \o <<"!", " ", "g">>, type |-> "function"]}
VariadicSigns ==
    {[src |-> <<"=", "=">>, kind |-> "equal"], [src |-> <<"+">>, kind |-> "add"],
     [src |-> <<"-">>, kind |-> "subtract"], [src |-> <<"*">>, kind |-> "multiply"],
     [src |-> <<"/">>, kind |-> "divide"]}
TooFewArguments == {<<>>, <<" ", "u">>}
WithFunctionArgument ==
    {<<" ", "g", " ", "1">>, <<" ", "1", " ", "g">>, <<" ", "1", " ", "g", " ", "u">>}
ValidationSrcs ==
    {c.src : c \in InverseBooleans \cup InverseNonBooleans}
    \cup InverseBadCounts
    \cup {s.src \o a : s \in VariadicSigns, a \in TooFewArguments}
    \cup {DefineG \o s.src \o a : s \in VariadicSigns, a \in WithFunctionArgument}

\* And and Or over operands of which one fails: the operands before it, the
\* failing operand with its error, and what follows it.  An unbound name
\* stands last, where it is a variable reference and not a call.
LogicSigns == {<<"&", "&">>, <<"|", "|">>}
EarlierOperands ==
    {<<>>, <<" ", "f", "a", "l", "s", "e">>, <<" ", "t", "r", "u", "e">>,
     <<" ", "f", "a", "l", "s", "e", " ", "t", "r", "u", "e">>}
DivisionFails == [src |-> <<" ", "(", "/", " ", "1", " ", "0", ")">>, msg |-> <<"infinity division">>]
UnboundFails == [src |-> <<" ", "u">>, msg |-> <<"undefined variable ", "u">>]
LaterOperands == {<<>>, <<" ", "t", "r", "u", "e">>, <<" ", "f", "a", "l", "s", "e">>, <<" ", "u">>}
LogicFailSrc(sign, earlier, fail, later) == sign \o earlier \o fail.src \o later
LogicFailSrcs ==
    {LogicFailSrc(s, e, DivisionFails, l) :
        s \in LogicSigns, e \in EarlierOperands, l \in LaterOperands}
    \cup {LogicFailSrc(s, e, UnboundFails, <<>>) : s \in LogicSigns, e \in EarlierOperands}

\* And and Or over up to two primitive operands, with or without the function
\* g as last operand (an identifier is a variable reference only there).
LogicOperands ==
    {[src |-> <<" ", "t", "r", "u", "e">>, falsy |-> FALSE],
     [src |-> <<" ", "f", "a", "l", "s", "e">>, falsy |-> TRUE],
     [src |-> <<" ", "(", ")">>, falsy |-> TRUE],
     [src |-> <<" ", "0">>, falsy |-> FALSE],
     [src |-> <<" ", "\"", "\"">>, falsy |-> FALSE],
     [src |-> <<" ", "0", ".", "5">>, falsy |-> FALSE]}
OperandLists ==
    {<<>>} \cup {<<a>> : a \in LogicOperands}
    \cup {<<a, b>> : a \in LogicOperands, b \in LogicOperands}
OperandsSrc(ops) ==
    IF Len(ops) = 0 THEN <<>>
    ELSE IF Len(ops) = 1 THEN ops[1].src
    ELSE ops[1].src \o ops[2].src
LogicSrc(sign, ops, fun) ==
    DefineG \o sign \o OperandsSrc(ops) \o (IF fun THEN <<" ", "g">> ELSE <<>>)
LogicSrcs ==
    {LogicSrc(s, ops, fun) : s \in LogicSigns, ops \in OperandLists, fun \in BOOLEAN}

\* A call whose later arguments name earlier parameters: the caller binds a
\* and b, f has parameters a b c and returns their sum.
\* `= a X;= b Y;= f { [a b c] + a b c; };;f P (+ a b) (+ a b)`
CallerA == {"1", "2"}
CallerB == {"2", "3"}
FirstArgument == {"0", "4"}
ArgumentsSrc(x, y, p) ==
    <<"=", " ", "a", " ", x, ";", "=", " ", "b", " ", y, ";">>
    \o <<"=", " ", "f", " ", "{", " ", "[", "a", " ", "b", " ", "c", "]", " ",
          "+", " ", "a", " ", "b", " ", "c", ";", " ", "}", ";", ";">>
    \o <<"f", " ", p>> \o <<" ", "(", "+", " ", "a", " ", "b", ")", " ", "(", "+", " ", "a", " ",
          "b", ")">>
\* Functions without statements: `= f { };;f ()` and `= f { [a] };;f 1`.
EmptyBody == <<"=", " ", "f", " ", "{", " ", "}", ";", ";", "f", " ", "(", ")">>
EmptyBodyOneParam == <<"=", " ", "f", " ", "{", " ", "[", "a", "]", " ", "}", ";", ";", "f", " ", "1">>
\* `= a 1;= f { [a] = a 7; a; };;f 2`
AssignsParam == <<"=", " ", "a", " ", "1", ";", "=", " ", "f", " ", "{", " ", "[", "a", "]",
      " ", "=", " ", "a", " ", "7", ";", " ", "a", ";", " ", "}", ";", ";", "f",
      " ", "2">>
ArgumentsSrcs ==
    {ArgumentsSrc(x, y, p) : x \in CallerA, y \in CallerB, p \in FirstArgument}
    \cup {EmptyBody, EmptyBodyOneParam, AssignsParam}

\* Texts that end where a parse function still reads ahead.
EmptyFunctionAtEnd == <<"=", " ", "f", " ", "{", " ", "}">>
CursorSrcs ==
    {EmptyFunctionAtEnd, <<"=">>, <<"(">>, <<"i", "f">>, <<"{", " ", "}">>,
     <<"i", "f", " ", "t", "r", "u", "e", " ", "{">>,
     <<"=", " ", "f", " ", "{", " ", "[", "a">>}

\* Two lines with and without a comment at the end of the first.
PlainLines == <<"1", "\n", "2">>
AssignLines == <<"=", " ", "x", " ", "1", "\n", "x">>
AssignCommentLines == <<"=", " ", "x", " ", "1", " ", "#", " ", "c", "\n", "x">>
CommentPairSrcs == {PlainLines, AssignLines, AssignCommentLines}

\* Texts without parentheses around an expression: two the parser takes
\* token for token, and three with a token after a function literal, after an
\* else block and where an operator stopped collecting.
TokenForToken == {<<"=", " ", "x", " ", "1", ";", "x">>, <<"=", " ", "f", " ", "{", " ", "[", "a", "]", " ", "a", ";", " ", "}", ";",
      ";", "f", " ", "1">>}
AfterFunction == <<"=", " ", "f", " ", "{", " ", "1", ";", " ", "}", " ", "9", ";">>
AfterElse == <<"i", "f", " ", "t", "r", "u", "e", " ", "{", " ", "2", ";", " ", "}", " ",
      "e", "l", "s", "e", " ", "{", " ", "3", ";", " ", "}", " ", "4", ";", "5">>
AfterOperator == <<"+", " ", "1", " ", "2", " ", "}", " ", "3">>
SteppedSrcs == TokenForToken \cup {AfterFunction, AfterElse, AfterOperator}

\* Texts that take the lexer through each of its loops.
Underscore == <<"1", "_", "0">>
Backslash == <<"\"", "a", "\\", "\"", "b", "\"">>
Comment == <<"1", " ", "#", " ", "c">>
CommentLine == <<"1", " ", "#", " ", "c", "\n", "2">>
TwoDots == <<"1", ".", "5", ".", "2", " ", "7", ".">>
Pairs ==
    <<"=", "=", " ", "=", " ", "&", "&", " ", "&", " ", "|", "|", " ", "|",
      " ", "@">>
Unterminated == <<"\"", "a", "b">>
Whitespace == <<"1", "\t", "\r", "\n", "2">>
LexerSrcs ==
    {Underscore, Backslash, Comment, CommentLine, TwoDots, Pairs, Unterminated,
     Whitespace}

\* Programs of several statements, with and without a top-level If.
Sequence == <<"1", ";", "2", ";", "\"", "s", "\"">>
AssignThenRead == <<"=", " ", "x", " ", "1", "\n", "x">>
ElifWord == <<"e", "l", "i", "f">>
ProgramSrcs ==
    {<<>>, <<"\n">>, Sequence, AssignThenRead, ElifWord}
    \cup {<<"1", ";">> \o l.src : l \in Literals}

Sources ==
    IntLiteralSrcs \cup LongLiteralSrcs \cup TooLargeSrcs \cup AritySrcs \cup DynScopeSrcs \cup IfElseSrcs \cup ShadowSrcs
    \cup LexerSrcs \cup ProgramSrcs \cup FailFastSrcs
    \cup ZeroParamSrcs \cup AssignEndSrcs \cup IfSrcs
    \cup IdentifierSrcs \cup OperatorFailSrcs \cup ConditionSrcs
    \cup IfLastSrcs \cup ValidationSrcs
    \cup LogicFailSrcs \cup LogicSrcs \cup ArgumentsSrcs
    \cup CursorSrcs \cup CommentPairSrcs \cup SteppedSrcs

(***************************************************************************)
(* The driver (main.rs:29-61): the text of the file is lexed, the tokens    *)
(* are parsed, and the program is evaluated; then main returns, or the     *)
(* process has ended in a panic.  A run handles one text.                  *)
(***************************************************************************)
NoResult == [st |-> "none"]

LexerNew(src) ==
    /\ input' = src
    /\ res' = <<>>
    /\ mode' = "lex"
    /\ value' = <<>>
    /\ float' = FALSE
    /\ escaped' = FALSE
    /\ spins' = 0

\* fs::read_to_string(f) and Lexer::new(&input) on the text read.
Start ==
    /\ pc = "read"
    /\ \E src \in Sources :
         /\ text' = src
         /\ LexerNew(src)
    /\ pc' = "lex"
    /\ UNCHANGED <<parsed, result, opvars, replvars, build>>

\* Parser::new(tokens).parse(), reached without --token; on an error the
\* message is printed.
Parse ==
    /\ pc = "parse"
    /\ show # "token"
    /\ parsed' = ProgramParse(res)
    /\ pc' = IF parsed'.st = "ok" THEN "eval" ELSE "done"
    /\ UNCHANGED <<text, lexvars, result, opvars, replvars, build>>

\* The parsed program is evaluated; the value or the error is printed.
Eval ==
    /\ pc = "eval"
    /\ result' = EvaluatorEval(parsed.node)
    /\ pc' = "done"
    /\ UNCHANGED <<text, lexvars, parsed, opvars, replvars, build>>

Init ==
    /\ pc = "read"
    /\ text = <<>>
    /\ input = <<>>
    /\ res = <<>>
    /\ mode = "lex"
    /\ value = <<>>
    /\ float = FALSE
    /\ escaped = FALSE
    /\ spins = 0
    /\ parsed = NoResult
    /\ result = NoResult
    /\ kind = "equal"
    /\ values = <<>>
    /\ opres = NoResult
    /\ session = ScopeNew
    /\ file = TRUE
    /\ printed = <<>>
    /\ show = "none"
    /\ lastline = <<>>
    /\ build \in Builds

Next ==
    \/ Start
    \/ LexMain
    \/ LexComment
    \/ LexNumber
    \/ LexString
    \/ LexIdent
    \/ Parse
    \/ Eval

Spec == Init /\ [][Next]_vars

(***************************************************************************)
(* The operator functions of eval/ops.rs applied to value lists: the lists *)
(* eval_operator can hand them, of two or more primitives.                 *)
(***************************************************************************)
Primitives ==
    {Integer(n) : n \in {-1, 0, 1, 2, 4}}
    \cup {Float(q) : q \in {<<0, 1>>, <<0, -1>>, <<1, 1>>, <<2, 1>>, <<1, 0>>, NaN}}
    \cup {String(t) : t \in {<<"a">>, <<"b">>}}
    \cup {Boolean(b) : b \in BOOLEAN}
    \cup {Null}

ValueLists == UNION {[1..n -> Primitives] : n \in 2..MaxArgs}

OperatorKinds == {"equal", "add", "subtract", "multiply", "divide"}

InitOps ==
    /\ pc = "operator"
    /\ text = <<>>
    /\ input = <<>>
    /\ res = <<>>
    /\ mode = "lex"
    /\ value = <<>>
    /\ float = FALSE
    /\ escaped = FALSE
    /\ spins = 0
    /\ parsed = NoResult
    /\ result = NoResult
    /\ kind \in OperatorKinds
    /\ values \in ValueLists
    /\ opres = NoResult
    /\ session = ScopeNew
    /\ file = TRUE
    /\ printed = <<>>
    /\ show = "none"
    /\ lastline = <<>>
    /\ build \in Builds

\* eval_operator's `match op.kind` on the evaluated arguments.
Operate ==
    /\ pc = "operator"
    /\ opres = NoResult
    /\ opres' = ApplyOperator(kind, values)
    /\ UNCHANGED <<pc, text, lexvars, parsed, result, kind, values, replvars, build>>

NextOps == Operate

SpecOps == InitOps /\ [][NextOps]_vars

(***************************************************************************)
(* main and repl of main.rs.  With a file, main lexes, parses and          *)
(* evaluates its text once, against Scope::default().  Without one, repl   *)
(* does the same for every line read, against the one Scope it created     *)
(* before its loop.  Both call eval(program, scope), which is not among    *)
(* the sources: it is taken from its description, as executing the         *)
(* statements in order against the scope handed in and returning the value *)
(* of the last one, or null.                                               *)
(***************************************************************************)
MaxInputs == 3    \* lines read before the loop is left alone

\* eval(program, &mut scope).
\* The loop of eval over the statements; an error ends it.
RECURSIVE EvalStatements(_, _, _, _)
EvalStatements(statements, i, scope, last) ==
    IF i > Len(statements) THEN Value(last, scope)
    ELSE LET stmt == statements[i] IN
         CASE stmt.s = "Assign" ->
                Try(eval_assign(stmt, scope), LAMBDA r :
                    EvalStatements(statements, i + 1, r.scope, r.val))
           [] stmt.s = "If" ->
                Try(eval_if_condition(stmt, scope), LAMBDA r :
                    EvalStatements(statements, i + 1, r.scope, r.val))
           [] stmt.s = "Expression" ->
                Try(eval_expr(stmt.expr, scope), LAMBDA r :
                    EvalStatements(statements, i + 1, r.scope, r.val))
eval(statements, scope) == EvalStatements(statements, 1, scope, Null)

\* Lines as read_line returns them, newline included: the name a line binds
\* when it succeeds, and the name it reads.
ReplInputs ==
    {[src |-> <<"=", " ", "x", " ", "1", "\n">>, binds |-> Some(<<"x">>), reads |-> None],
     [src |-> <<"=", " ", "x", " ", "2", "\n">>, binds |-> Some(<<"x">>), reads |-> None],
     [src |-> <<"x", "\n">>, binds |-> None, reads |-> Some(<<"x">>)],
     [src |-> <<"=", " ", "y", " ", "x", "\n">>, binds |-> Some(<<"y">>), reads |-> None],
     [src |-> <<"y", "\n">>, binds |-> None, reads |-> Some(<<"y">>)],
     [src |-> <<")", "\n">>, binds |-> None, reads |-> None],
     [src |-> <<"u", "\n">>, binds |-> None, reads |-> None],
     [src |-> <<"=", " ", "y", " ", "\"", "s", "\"", " ", "#", " ", "c", "\n">>,
      binds |-> Some(<<"y">>), reads |-> None]}

\* What an iteration prints: `value : type` on success, the message of the
\* parse or evaluation error otherwise.
Printed(p, r) ==
    IF p.st # "ok" THEN [st |-> "err", msg |-> p.msg]
    ELSE IF r.st = "ok" THEN [st |-> "ok", val |-> r.val]
    ELSE [st |-> "err", msg |-> r.msg]

\* read_line, which appends the line to the buffer (or read_to_string of the
\* file), and Lexer::new on the buffer.
ReplRead ==
    /\ pc = "read"
    /\ Len(printed) < MaxInputs
    /\ \E line \in ReplInputs :
         /\ text' = text \o line.src
         /\ lastline' = line.src
         /\ LexerNew(text \o line.src)
    /\ pc' = "lex"
    /\ UNCHANGED <<parsed, result, opvars, session, file, printed, show, build>>

\* --token: the tokens are printed; main returns, repl's loop `continue`s,
\* which passes over input.clear().
ReplTokens ==
    /\ pc = "parse"
    /\ show = "token"
    /\ printed' = IF file THEN printed
                  ELSE Append(printed, [input |-> text,
                                        out |-> [st |-> "tokens", tokens |-> res]])
    /\ pc' = IF file THEN "exit" ELSE "read"
    /\ UNCHANGED <<text, lexvars, parsed, result, opvars, session, file, show, lastline, build>>

\* The `match stmt` of --parse (main.rs:45 and :87), which prints an Assign
\* and an Expression and has no arm for an If.
StatementsOut(statements) ==
    IF \E i \in 1..Len(statements) : statements[i].s = "If"
    THEN [st |-> "nobuild", msg |-> NoArm]
    ELSE [st |-> "statements", node |-> statements]

\* --parse after a successful parse: the statements are printed; main
\* returns, repl's loop `continue`s, which passes over input.clear().
ReplStatements ==
    /\ pc = "eval"
    /\ show = "parse"
    /\ printed' = IF file THEN printed
                  ELSE Append(printed, [input |-> text, out |-> StatementsOut(parsed.node)])
    /\ pc' = IF file THEN "exit" ELSE "read"
    /\ parsed' = IF file THEN parsed ELSE NoResult
    /\ UNCHANGED <<text, lexvars, result, opvars, session, file, show, lastline, build>>

\* eval(p, &mut scope): the scope keeps what the statements did to it.
ReplEval ==
    /\ pc = "eval"
    /\ show = "none"
    /\ result' = eval(parsed.node, session)
    /\ session' = result'.scope
    /\ pc' = "done"
    /\ UNCHANGED <<text, lexvars, parsed, opvars, file, printed, show, lastline, build>>

\* ReplNext with `scope` created inside the loop.
ReplNextFreshScope ==
    /\ pc = "done"
    /\ ~file
    /\ parsed.st # "panic" /\ result.st # "panic"
    /\ printed' = Append(printed, [input |-> text, out |-> Printed(parsed, result)])
    /\ pc' = "read"
    /\ text' = <<>>
    /\ LexerNew(<<>>)
    /\ parsed' = NoResult
    /\ result' = NoResult
    /\ session' = ScopeNew
    /\ UNCHANGED <<opvars, file, show, lastline, build>>

\* The end of repl's loop body: the result is printed, input.clear(), and
\* the loop reads again.  main returns instead.
ReplNext ==
    /\ pc = "done"
    /\ ~file
    /\ parsed.st # "panic" /\ result.st # "panic"
    /\ printed' = Append(printed, [input |-> text, out |-> Printed(parsed, result)])
    /\ pc' = "read"
    /\ text' = <<>>
    /\ LexerNew(<<>>)
    /\ parsed' = NoResult
    /\ result' = NoResult
    /\ UNCHANGED <<opvars, session, file, show, lastline, build>>

InitRepl ==
    /\ pc = "read"
    /\ text = <<>>
    /\ input = <<>>
    /\ res = <<>>
    /\ mode = "lex"
    /\ value = <<>>
    /\ float = FALSE
    /\ escaped = FALSE
    /\ spins = 0
    /\ parsed = NoResult
    /\ result = NoResult
    /\ kind = "equal"
    /\ values = <<>>
    /\ opres = NoResult
    /\ session = ScopeNew
    /\ file \in BOOLEAN
    /\ printed = <<>>
    /\ show \in {"none", "token", "parse"}
    /\ lastline = <<>>
    /\ build \in Builds

NextRepl ==
    \/ ReplRead
    \/ LexMain
    \/ LexComment
    \/ LexNumber
    \/ LexString
    \/ LexIdent
    \/ Parse
    \/ ReplTokens
    \/ ReplStatements
    \/ ReplEval
    \/ ReplNext

SpecRepl == InitRepl /\ [][NextRepl]_vars

(***************************************************************************)
(* The claims.                                                             *)
(***************************************************************************)
Done == pc = "done"
SameValue(a, b) ==
    a.kind = b.kind /\ (IF a.kind = "function" THEN a = b ELSE a.v = b.v)
Returned(v) == parsed.st = "ok" /\ result.st = "ok" /\ SameValue(result.val, v)
Failed(msg) == parsed.st = "ok" /\ result.st = "err" /\ result.msg = msg

\* C1: the definition `= f { [a b] + a b }` runs through the pipeline; with
\* the call `f 2 3` after it in the same scope the result is integer 5, and
\* with `f 2` (or `f 2 3 4`) the result is the arity error naming f and 2.
ArityCall ==
    Done =>
      /\ text = DefineF => parsed.st = "ok" /\ result.st = "ok"
      /\ \A sep \in StatementBreaks :
           /\ text = DefineF \o sep \o CallF23 => Returned(Integer(5))
           /\ text \in {DefineF \o sep \o CallF2, DefineF \o sep \o CallF234} =>
                Failed(<<"expected ", "2", " arguments to function ", "f">>)

\* C2: a called function resolves a free name to the value the name has in
\* the caller's scope when the call is made: after `= v A`, the definition
\* of f reading v, and `= v B`, the call `f ()` returns B.
DynamicScope ==
    Done => \A a \in Literals, b \in Literals :
              text = DynScopeSrc(a.src, b.src) => Returned(b.val)
DynamicScopeSeen ==
    /\ Done
    /\ text = DynScopeSrc(<<"1">>, <<"\"", "s", "\"">>)
    /\ Returned(String(<<"s">>))

\* C3: `if true { = x 1 } else { = x 2 }` followed by a read of x gives
\* integer 1, and with the condition false integer 2.
IfElseAssigns ==
    Done =>
      /\ text = IfElseSrc(True, <<>>) => Returned(Integer(1))
      /\ text = IfElseSrc(False, <<>>) => Returned(Integer(2))

\* C4: Divide's zero policy, for integers and for floats.  At the first zero
\* divisor: a zero first argument or a zero accumulator gives the
\* "divide 0 by 0" error; an accumulator of exactly one gives the "infinity
\* division" error; any other accumulator gives neither and the raw division
\* is made (a panic on integers, an infinity on floats, after which a further
\* zero divisor finds that a zero occurred and gives "divide 0 by 0").
\* Without a zero divisor the result is the quotient.
IsZero(p) == IF p.kind = "integer" THEN p.v = 0 ELSE FloatEq(p.v, <<0, 1>>)
IsOne(p) == IF p.kind = "integer" THEN p.v = 1 ELSE FloatEq(p.v, <<1, 1>>)
ZeroByZero(r) ==
    r.st = "err" /\ r.msg \in {<<"cannot divide 0 by 0">>, <<"cannot divide 0.0 by 0.0">>}
InfinityDivision(r) == r.st = "err" /\ r.msg = <<"infinity division">>
\* vs[1] / vs[2] / ... / vs[n]
RECURSIVE Quotient(_, _)
Quotient(vs, n) ==
    IF n = 1 THEN vs[1]
    ELSE LET q == Quotient(vs, n - 1) IN
         [kind |-> q.kind,
          v |-> IF q.kind = "integer" THEN IntDiv(q.v, vs[n].v)
                ELSE FloatDiv(q.v, vs[n].v)]
Applied(k) == pc = "operator" /\ kind = k /\ opres.st # "none"
OneKind(vs, kinds) ==
    vs[1].kind \in kinds /\ \A i \in 1..Len(vs) : vs[i].kind = vs[1].kind
DivideZeroPolicy ==
    (Applied("divide") /\ OneKind(values, {"integer", "float"})) =>
      LET zeros == {i \in 2..Len(values) : IsZero(values[i])} IN
      IF zeros = {}
      THEN opres.st = "ok" /\ opres.val = Quotient(values, Len(values))
      ELSE LET first == CHOOSE i \in zeros : \A j \in zeros : i <= j
               acc == Quotient(values, first - 1)
           IN  IF IsZero(values[1]) \/ IsZero(acc) THEN ZeroByZero(opres)
               ELSE IF IsOne(acc) THEN InfinityDivision(opres)
               ELSE IF values[1].kind = "integer" THEN opres.st = "panic"
               ELSE IF Cardinality(zeros) > 1 THEN ZeroByZero(opres)
               ELSE opres.st = "ok"
DivideZeroPolicySeen ==
    /\ Applied("divide")
    /\ values = <<Integer(2), Integer(2), Integer(0)>>
    /\ InfinityDivision(opres)

\* C5: Equal on two primitives: same kind, true exactly when equal (null with
\* null is true); null with a non-null value, in either position, false; two
\* non-null values of different kinds, a type error.
\* Floats are equal as the numbers they are: 0.0 and -0.0 are one number and
\* NaN is none.
EqualPrimitives(a, b) ==
    IF a.kind = "float"
    THEN a.v # NaN /\ b.v # NaN /\ (a.v = b.v \/ (a.v[1] = 0 /\ b.v[1] = 0))
    ELSE a.v = b.v
EqualTwoPrimitives ==
    (Applied("equal") /\ Len(values) = 2) =>
      LET a == values[1]
          b == values[2]
      IN  IF a.kind = b.kind
          THEN opres.st = "ok" /\ SameValue(opres.val, Boolean(EqualPrimitives(a, b)))
          ELSE IF a.kind = "null" \/ b.kind = "null"
          THEN opres.st = "ok" /\ SameValue(opres.val, Boolean(FALSE))
          ELSE /\ opres.st = "err"
               /\ opres.msg = <<"cannot compare type ", a.kind, " with type ", b.kind>>
EqualTwoPrimitivesSeen ==
    /\ Applied("equal")
    /\ values = <<Integer(1), String(<<"a">>)>>
    /\ opres.st = "err"

\* C6: Add over two or more arguments: integers give their sum, strings their
\* concatenation in argument order; a boolean or null first argument, or a
\* later argument of another kind than the first, gives an error.
RECURSIVE Sum(_, _), Concatenation(_, _)
Sum(vs, n) == IF n = 0 THEN 0 ELSE Sum(vs, n - 1) + vs[n].v
Concatenation(vs, n) == IF n = 0 THEN <<>> ELSE Concatenation(vs, n - 1) \o vs[n].v
AddSumsAndConcatenates ==
    Applied("add") =>
      /\ OneKind(values, {"integer"}) =>
           opres.st = "ok" /\ SameValue(opres.val, Integer(Sum(values, Len(values))))
      /\ OneKind(values, {"string"}) =>
           /\ opres.st = "ok"
           /\ SameValue(opres.val, String(Concatenation(values, Len(values))))
      /\ (\/ values[1].kind \in {"boolean", "null"}
          \/ \E i \in 2..Len(values) : values[i].kind # values[1].kind) =>
           opres.st = "err"
AddSumsAndConcatenatesSeen ==
    /\ Applied("add")
    /\ values = <<String(<<"a">>), String(<<"b">>), String(<<"a">>)>>
    /\ SameValue(opres.val, String(<<"a", "b", "a">>))

\* C7: an integer literal inside the range of i64, given as the whole
\* program, evaluates to the integer with the literal's numeric value.
RECURSIVE Numeral(_, _)
Numeral(digits, acc) ==
    IF digits = <<>> THEN acc
    ELSE Numeral(Tail(digits), 10 * acc + DigitValue(Head(digits)))
IntegerLiteralValue ==
    (/\ Done
     /\ text \in IntLiteralSrcs \cup LongLiteralSrcs \cup TooLargeSrcs
     /\ ~PosOverflow(text)) =>
        Returned(Integer(Numeral(text, 0)))
IntegerLiteralValueSeen ==
    /\ Done /\ text = [i \in 1..20 |-> "0"] \o <<"4", "2">>
    /\ Returned(Integer(42))
\* A digit sequence above i64::MAX is no valid literal: the parse fails.
LiteralTooLarge ==
    (Done /\ text \in TooLargeSrcs) =>
        parsed.st = "err" /\ parsed.msg = <<"number too large to fit in target type">>

\* C8: every iteration of a lexer loop consumes a character or ends its scan,
\* so that lex() terminates, and the token sequence it returns ends in EOF.
LexerProgresses ==
    /\ spins = 0
    /\ pc \in {"parse", "eval", "done"} /\ text # <<>> =>
         res # <<>> /\ res[Len(res)].type = "EOF"

\* C9: a Program's statements are executed in source order against one
\* Scope, every statement kind (Assign, If, Expression) among them, and the
\* value of the last statement executed is returned, or null without one.
EveryStatementExecuted ==
    (Done /\ parsed.st = "ok") =>
      LET run == BodyLoop(parsed.node, 1, ScopeNew, Null) IN
      /\ result.st = run.st
      /\ result.st = "ok" => SameValue(result.val, run.val)
      /\ result.scope = run.scope

\* C10: inside a call, binding a parameter or assigning a name writes the
\* call's own scope and lookup returns that inner value; after the call the
\* caller's bindings are what they were, also for names the callee assigned.
ShadowingTotal ==
    Done => \A a \in SmallInts, b \in SmallInts :
      LET outerX == Integer(ParseInt(a).v)
          innerX == ParseInt(b).v
          store == result.scope.store
          x == <<"x">>
          r == <<"r">>
      IN  /\ text = ShadowSrc(a, b) =>
                /\ Returned(outerX)
                /\ DOMAIN store = {x, <<"f">>, r}
                /\ SameValue(store[x], outerX)
                /\ SameValue(store[r], Integer(innerX + 3))
          /\ text = NestedSrc(a, b) =>
                /\ Returned(outerX)
                /\ DOMAIN store = {x, <<"f">>, <<"g">>, r}
                /\ SameValue(store[x], outerX)
                /\ SameValue(store[r], Integer(outerX.v + (innerX + 9)))
ShadowingTotalSeen ==
    /\ Done
    /\ text = ShadowSrc(<<"1">>, <<"2">>)
    /\ Returned(Integer(1))
    /\ SameValue(result.scope.store[<<"r">>], Integer(5))

\* C11: evaluation fails fast.  In a program, a function body and an if
\* branch, a statement whose evaluation returns an error is the last one
\* executed: the evaluation returns that statement's error, whatever stands
\* after it, and a binding the next statement would make is not made.
FailsFast ==
    Done => \A s \in FailingStatements, n \in Followers :
      /\ text \in {FailInBody(s.src, n), FailInConsequence(s.src, n),
                   FailInAlternative(s.src, n)} => Failed(s.msg)
      /\ text = FailInProgram(s.src, n) =>
           /\ Failed(s.msg)
           /\ SameValue(result.scope.store[<<"x">>], Integer(1))
FailsFastSeen ==
    /\ Done
    /\ text = FailInConsequence(<<"u">>, <<"=", " ", "x", " ", "2">>)
    /\ Failed(<<"undefined variable ", "u">>)

\* C12: the interactive loop uses one Scope for all inputs.  A binding made
\* by a line that evaluated successfully is what every later line reading
\* that name gets, until a line binds the name again, also when lines that
\* failed to parse or to evaluate stand between; after an error the loop goes
\* on to the next line.  A file is evaluated from an empty Scope.
Binds(entry, name) ==
    \E line \in ReplInputs : line.src = entry.input /\ line.binds = Some(name)
Reads(entry, name) ==
    \E line \in ReplInputs : line.src = entry.input /\ line.reads = Some(name)
OneScopeForAllInputs ==
    /\ \A i \in 1..Len(printed), k \in 1..Len(printed), name \in {<<"x">>, <<"y">>} :
         (/\ i < k
          /\ Binds(printed[i], name) /\ printed[i].out.st = "ok"
          /\ Reads(printed[k], name)
          /\ \A j \in (i + 1)..(k - 1) : ~Binds(printed[j], name))
         => /\ printed[k].out.st = "ok"
            /\ SameValue(printed[k].out.val, printed[i].out.val)
    /\ (Done /\ ~file) => ENABLED ReplNext
    /\ file => /\ printed = <<>>
               /\ pc = "eval" => session = ScopeNew
               /\ (Done /\ text = <<"x", "\n">>) => Failed(<<"undefined variable ", "x">>)
OneScopeForAllInputsSeen ==
    /\ Len(printed) = 3
    /\ printed[1].input = <<"=", " ", "x", " ", "2", "\n">>
    /\ printed[2].out.st = "err"
    /\ printed[2].input \in {<<")", "\n">>, <<"u", "\n">>}
    /\ printed[3].input = <<"x", "\n">>
    /\ printed[3].out.st = "ok"
    /\ SameValue(printed[3].out.val, Integer(2))

\* C13: a function without parameters called with the one argument `()`
\* runs its body; called with one argument that is any other expression, a
\* variable whose value is null among them, it returns the error "can only be
\* called with ()"; called with two or more arguments it returns the arity
\* error.
ZeroParameterCall ==
    Done =>
      /\ text = ZeroParamSrc(<<"(", ")">>) => Returned(Integer(7))
      /\ \A a \in OtherArguments :
           text = ZeroParamSrc(a) =>
             Failed(<<"function ", "f", " can only be called with ()">>)
      /\ \A a \in SeveralArguments :
           text = ZeroParamSrc(a) =>
             Failed(<<"expected ", "0", " arguments to function ", "f">>)
ZeroParameterCallSeen ==
    /\ Done
    /\ text = ZeroParamSrc(<<"n">>)
    /\ Failed(<<"function ", "f", " can only be called with ()">>)

\* C14: an Assign parses successfully when its right-hand expression, of any
\* kind, is directly followed by the end of input, a semicolon or a newline,
\* and is a syntax error naming the token when another token follows.
AssignEnd ==
    Done => \A rhs \in RightHandSides :
      /\ text \in {AssignSrc(rhs, <<>>), AssignSrc(rhs, <<";">>),
                   AssignSrc(rhs, <<"\n">>), AssignSrc(rhs, <<";", "2">>)} =>
           parsed.st = "ok"
      /\ \A c \in Closers :
           text = AssignSrc(rhs, c.src) =>
             /\ parsed.st = "err"
             /\ parsed.msg = <<"unexpected token ">> \o c.name

\* C15: `if true { 2; }` parses into an If node without alternative, at top
\* level before a separator or the end of input and inside a function body
\* before further statements; `if true { 2; } else { 3; }` parses into an If
\* node whose alternative holds the statements of the else block.
IfParsed(alt) ==
    IfNode(PrimitiveExpr(Boolean(TRUE)),
           <<ExpressionStatement(PrimitiveExpr(Integer(2)))>>, alt)
IfWithoutElse ==
    Done =>
      /\ \A tail \in IfTails :
           /\ text = IfOnly \o tail =>
                parsed.st = "ok" /\ parsed.node[1] = IfParsed(None)
           /\ text = IfWithElse \o tail =>
                /\ parsed.st = "ok"
                /\ parsed.node[1] =
                     IfParsed(Some(<<ExpressionStatement(PrimitiveExpr(Integer(3)))>>))
      /\ text = IfInBody =>
           /\ parsed.st = "ok"
           /\ parsed.node[1].value.fun.body[1] = IfParsed(None)

\* C16: an identifier directly before a separator or the end of input parses
\* as a variable reference; before another token it parses as a Call whose
\* arguments run to the next separator or closing delimiter, so that a call
\* ends at `)` and at the `}` of the block it is the last statement of,
\* without a syntax error.
CallOf(name, ints) ==
    CallExpr(name, [i \in 1..Len(ints) |-> PrimitiveExpr(Integer(ints[i]))])
IdentifierOrCall ==
    (Done /\ text \in IdentifierSrcs) =>
      /\ parsed.st = "ok"
      /\ text \in NameAlone =>
           parsed.node[1] = ExpressionStatement(IdentifierExpr(<<"x">>))
      /\ text \in CallWithArgs =>
           parsed.node[1] = ExpressionStatement(CallOf(<<"f">>, <<1, 2>>))
      /\ text = CallInParens =>
           parsed.node[1] = ExpressionStatement(CallOf(<<"f">>, <<1>>))
      /\ text = CallEndsBlock =>
           parsed.node[1].value.fun.body = <<ExpressionStatement(CallOf(<<"f">>, <<1>>))>>

\* C17: while a variadic operator's arguments are parsed, the first argument
\* that fails to parse ends the collection: no error is returned, the parse
\* succeeds and the operator node holds the arguments collected before it.
OperatorSwallowsFailure ==
    \A sign \in OperatorSigns, good \in GoodArguments,
       bad \in BadArguments, after \in AfterBad :
        (Done /\ text = OperatorFailSrc(sign, good, bad, after)) =>
          /\ parsed.st = "ok"
          /\ parsed.node[1] = ExpressionStatement(OperatorExpr(sign.kind,
                 [i \in 1..Len(good.ints) |-> PrimitiveExpr(Integer(good.ints[i]))]))
OperatorSwallowsFailureSeen ==
    /\ Done /\ text = <<"+", " ", "1", " ", "2", " ", "}">>
    /\ parsed.st = "ok"
    /\ Len(parsed.node[1].expr.args) = 2
    /\ Returned(Integer(3))

\* C18: in a double-quoted string a backslash is copied into the content and
\* sets the escaped flag, a quote that follows it is copied as text and clears
\* the flag, and the next quote closes the string into one String token; a
\* string with no closing quote gives Illegal "unterminated quote string".
UnterminatedIllegal ==
    (text = Unterminated /\ pc # "lex") =>
        res = <<Token("Illegal", <<"unterminated quote string">>), Token("EOF", <<>>)>>
EscapedQuote ==
    /\ (text = Backslash /\ pc = "lex" /\ mode = "string") =>
         /\ spins = 0
         /\ <<"\"">> \o value \o input = Backslash
         /\ escaped <=> (value # <<>> /\ value[Len(value)] = "\\")
    /\ (text = Backslash /\ pc # "lex") =>
         res = <<Token("String", <<"a", "\\", "\"", "b">>), Token("EOF", <<>>)>>
    /\ UnterminatedIllegal

\* C19: the value of an If's condition decides the branch: true and every
\* integer, float and string (0, 0.0 and "" among them) run the consequence;
\* false and null run the alternative, or nothing without one; a function
\* value is a type error and no branch runs.
ConditionSelectsBranch ==
    \A c \in Conditions, e \in BOOLEAN :
        (Done /\ text = ConditionSrc(c.src, e)) =>
            CASE c.selects = "yes" -> Failed(<<"undefined variable ", "a">>)
              [] c.selects = "no" ->
                   IF e THEN Failed(<<"undefined variable ", "b">>) ELSE Returned(Null)
              [] c.selects = "function" ->
                   Failed(<<"cannot use type function as a condition">>)
ConditionSelectsBranchSeen ==
    /\ Done /\ text = ConditionSrc(<<"0">>, TRUE)
    /\ parsed.node[1].value.fun.body[1].s = "If"
    /\ Failed(<<"undefined variable ", "a">>)

\* C20: an If that evaluates without error has the value null, whichever
\* branch ran and whatever its statements returned, so a function body and a
\* program whose last statement is an If return null.
IfEndsBodyNull ==
    \A c \in {True, False}, e \in BOOLEAN :
        (Done /\ text = IfEndsBody(c, e)) =>
            /\ parsed.node[1].value.fun.body[2].s = "If"
            /\ Returned(Null)
IfValueNull ==
    /\ IfEndsBodyNull
    /\ \A c \in {True, False} :
        (Done /\ text = IfEndsProgram(c)) =>
            /\ parsed.st = "ok" /\ parsed.node[2].s = "If"
            /\ Returned(Null)

\* C21: Inverse of one boolean argument is its complement; Inverse of any
\* other number of arguments, or of a non-boolean, is an error; every other
\* operator with fewer than two arguments is an error before any argument is
\* evaluated, and with an argument that is a function it is a type error.
OperatorArgumentsValidated ==
    Done =>
      /\ \A c \in InverseBooleans : text = c.src => Returned(Boolean(c.val))
      /\ text \in InverseBadCounts =>
           Failed(<<"expected exactly one argument for inverse operator">>)
      /\ \A c \in InverseNonBooleans :
           text = c.src => Failed(<<"cannot inverse type ", c.type>>)
      /\ \A s \in VariadicSigns :
           /\ \A a \in TooFewArguments : text = s.src \o a =>
                Failed(<<"expected at least 2 arguments for ", s.kind, " operator">>)
           /\ \A a \in WithFunctionArgument : text = DefineG \o s.src \o a =>
                Failed(<<"cannot compare type ", "function">>)
OperatorArgumentsValidatedSeen ==
    /\ Done /\ text = <<"+", " ", "u">>
    /\ Len(parsed.node[1].expr.args) = 1
    /\ Failed(<<"expected at least 2 arguments for ", "add", " operator">>)

\* C22: And and Or evaluate every operand, in order, before they classify a
\* value: the first operand whose evaluation fails makes the expression
\* return that error, also after an operand that is already false (for And)
\* or true (for Or).
LogicEvaluatesEveryOperand ==
    Done => \A s \in LogicSigns, e \in EarlierOperands :
      /\ \A l \in LaterOperands :
           text = LogicFailSrc(s, e, DivisionFails, l) => Failed(DivisionFails.msg)
      /\ text = LogicFailSrc(s, e, UnboundFails, <<>>) => Failed(UnboundFails.msg)
LogicEvaluatesEveryOperandSeen ==
    /\ Done /\ text = <<"&", "&", " ", "f", "a", "l", "s", "e", " ", "u">>
    /\ parsed.node[1].expr.e = "And" /\ Len(parsed.node[1].expr.args) = 2
    /\ Failed(<<"undefined variable ", "u">>)

\* C23: And is false exactly when some operand value is boolean false or
\* null, and true otherwise (no operands and a function operand included);
\* Or is true exactly when some operand value is a function or a primitive
\* other than boolean false and null, and false otherwise (no operands
\* included).  The result is a boolean.
LogicClassifies ==
    Done => \A ops \in OperandLists, fun \in BOOLEAN :
      LET someFalsy == \E j \in 1..Len(ops) : ops[j].falsy
          someTruthy == fun \/ \E j \in 1..Len(ops) : ~ops[j].falsy
      IN  /\ text = LogicSrc(<<"&", "&">>, ops, fun) => Returned(Boolean(~someFalsy))
          /\ text = LogicSrc(<<"|", "|">>, ops, fun) => Returned(Boolean(someTruthy))
LogicClassifiesSeen ==
    /\ Done /\ text = DefineG \o <<"|", "|", " ", "(", ")", " ", "g">>
    /\ parsed.node[2].expr.e = "Or" /\ Len(parsed.node[2].expr.args) = 2
    /\ Returned(Boolean(TRUE))

\* C24: a call's arguments are evaluated left to right in the new child
\* scope, each bound to its parameter before the next is evaluated, so an
\* argument reads the parameters before it in place of the caller's variables
\* of those names; the body runs in that child scope and the call returns
\* the value of the body's last statement, or null for an empty body.
ArgumentsBindInOrder ==
    Done =>
      /\ \A x \in CallerA, y \in CallerB, p \in FirstArgument :
           text = ArgumentsSrc(x, y, p) =>
             LET a == DigitValue(p)
                 b == a + DigitValue(y)
                 c == a + b
             IN  Returned(Integer(a + b + c))
      /\ text \in {EmptyBody, EmptyBodyOneParam} => Returned(Null)
      /\ text = AssignsParam => Returned(Integer(7))
ArgumentsBindInOrderSeen ==
    /\ Done /\ text = ArgumentsSrc("1", "2", "4")
    /\ Len(parsed.node[4].expr.args) = 3
    /\ Returned(Integer(20))

\* C25: on every token sequence the lexer produces (it ends in EOF) the
\* parser's cursor stays inside the token list: current_token, next_token and
\* peek_token never index at or past its length, and parse() returns a
\* Program or an Error, `= f { }` at the end of input included.
CursorStaysInside ==
    (parsed.st # "none" /\ res # <<>> /\ res[Len(res)].type = "EOF") =>
        parsed.st \in {"ok", "err"}

\* C26: Equal over three or more arguments whose kinds raise no error is true
\* only if every argument after the first is equal to the first: an argument
\* that differs from the first, or is null against a first that is not, makes
\* the result false whatever its position.
EqualsFirst(a, b) == a.kind = b.kind /\ EqualPrimitives(a, b)
EqualEveryArgument ==
    (Applied("equal") /\ Len(values) >= 3 /\ opres.st = "ok") =>
        SameValue(opres.val,
                  Boolean(\A i \in 2..Len(values) : EqualsFirst(values[1], values[i])))

\* C27: evaluating an expression of any kind leaves the scope it is evaluated
\* in unchanged, whether it returns a value or an error; only an Assign
\* changes a scope, and it changes only the binding of its target name in the
\* scope it executes in.
OnlyTargetChanged(before, after, name, val) ==
    /\ after.outer = before.outer
    /\ DOMAIN after.store = DOMAIN before.store \cup {name}
    /\ after.store[name] = val
    /\ \A k \in DOMAIN before.store : k # name => after.store[k] = before.store[k]
RECURSIVE FrameKept(_, _, _)
FrameKept(statements, i, scope) ==
    IF i > Len(statements) THEN TRUE
    ELSE LET stmt == statements[i] IN
         CASE stmt.s = "Assign" ->
                LET v == eval_expr(stmt.value, scope)
                    r == eval_assign(stmt, scope)
                IN  /\ v.scope = scope
                    /\ IF r.st = "ok"
                       THEN /\ OnlyTargetChanged(scope, r.scope, stmt.name, r.val)
                            /\ FrameKept(statements, i + 1, r.scope)
                       ELSE r.scope = scope
           [] stmt.s = "Expression" ->
                LET r == eval_expr(stmt.expr, scope) IN
                /\ r.scope = scope
                /\ r.st = "ok" => FrameKept(statements, i + 1, scope)
           [] stmt.s = "If" -> TRUE    \* Evaluator::eval goes no further
ExpressionsKeepScope ==
    (Done /\ parsed.st = "ok") => FrameKept(parsed.node, 1, ScopeNew)
ExpressionsKeepScopeSeen ==
    /\ Done /\ text = AssignsParam
    /\ Returned(Integer(7))
    /\ DOMAIN result.scope.store = {<<"a">>, <<"f">>}
    /\ result.scope.store[<<"a">>] = Integer(1)

\* C28: a `#` comment removes only its own text: `A # text`, a newline and
\* `B` lex to the token sequence of `A`, a newline and `B`, the Newline
\* between the two statements included.
Lexed == pc \in {"parse", "eval", "done"}
TwoIntegerLines ==
    <<Token("Integer", <<"1">>), Plain("Newline"), Token("Integer", <<"2">>),
      Plain("EOF")>>
AssignThenName ==
    <<Plain("Assign"), IdentToken(<<"x">>), Token("Integer", <<"1">>),
      Plain("Newline"), IdentToken(<<"x">>), Plain("EOF")>>
PlainLinesLexed ==
    /\ (Lexed /\ text = PlainLines) => res = TwoIntegerLines
    /\ (Lexed /\ text = AssignLines) => res = AssignThenName
CommentKeepsNewline ==
    /\ PlainLinesLexed
    /\ (Lexed /\ text = CommentLine) => res = TwoIntegerLines
    /\ (Lexed /\ text = AssignCommentLines) => res = AssignThenName

\* C29: when Program parsing succeeds, every token of the input other than
\* separators and EOF belongs to one of the returned statements: the parser
\* steps over no token, neither directly after the `}` of a function literal
\* or of an else block nor where an operator stopped collecting arguments.
\* TypesOf writes the statements back as token types (for texts without
\* parenthesised expressions, which leave no node).
KindToken(k) ==
    CASE k = "equal" -> "Equal" [] k = "add" -> "Plus" [] k = "subtract" -> "Minus"
      [] k = "multiply" -> "Asterisk" [] k = "divide" -> "Slash" [] k = "inverse" -> "Bang"
PrimitiveTypes(p) ==
    CASE p.kind = "integer" -> <<"Integer">>
      [] p.kind = "float" -> <<"Float">>
      [] p.kind = "string" -> <<"String">>
      [] p.kind = "boolean" -> IF p.v THEN <<"True">> ELSE <<"False">>
      [] p.kind = "null" -> <<"LeftParen", "RightParen">>
RECURSIVE ExpressionTypes(_), ExpressionsTypes(_, _), StatementTypes(_),
          StatementsTypes(_, _)
ExpressionTypes(e) ==
    CASE e.e = "Primitive" -> PrimitiveTypes(e.prim)
      [] e.e = "Identifier" -> <<"Ident">>
      [] e.e = "Operator" -> <<KindToken(e.kind)>> \o ExpressionsTypes(e.args, 1)
      [] e.e = "Call" -> <<"Ident">> \o ExpressionsTypes(e.args, 1)
      [] e.e = "And" -> <<"And">> \o ExpressionsTypes(e.args, 1)
      [] e.e = "Or" -> <<"Or">> \o ExpressionsTypes(e.args, 1)
      [] e.e = "Function" ->
           <<"BlockStart">>
           \o (IF e.fun.params = <<>> THEN <<>>
               ELSE <<"LeftBracket">> \o [i \in 1..Len(e.fun.params) |-> "Ident"]
                    \o <<"RightBracket">>)
           \o StatementsTypes(e.fun.body, 1) \o <<"BlockEnd">>
ExpressionsTypes(es, i) ==
    IF i > Len(es) THEN <<>> ELSE ExpressionTypes(es[i]) \o ExpressionsTypes(es, i + 1)
StatementTypes(stmt) ==
    CASE stmt.s = "Assign" -> <<"Assign", "Ident">> \o ExpressionTypes(stmt.value)
      [] stmt.s = "Expression" -> ExpressionTypes(stmt.expr)
      [] stmt.s = "If" ->
           <<"If">> \o ExpressionTypes(stmt.condition)
           \o <<"BlockStart">> \o StatementsTypes(stmt.consequence, 1) \o <<"BlockEnd">>
           \o (IF stmt.alternative = None THEN <<>>
               ELSE <<"Else", "BlockStart">>
                    \o StatementsTypes(stmt.alternative[1], 1) \o <<"BlockEnd">>)
StatementsTypes(stmts, i) ==
    IF i > Len(stmts) THEN <<>>
    ELSE StatementTypes(stmts[i]) \o StatementsTypes(stmts, i + 1)
Significant(tokens) ==
    LET kept == SelectSeq(tokens, LAMBDA t : t.type \notin StatementEnd)
    IN  [i \in 1..Len(kept) |-> kept[i].type]
TokenForTokenParsed ==
    (Done /\ text \in TokenForToken) =>
        parsed.st = "ok" /\ Significant(res) = StatementsTypes(parsed.node, 1)
EveryTokenParsed ==
    /\ TokenForTokenParsed
    /\ (Done /\ text \in SteppedSrcs /\ parsed.st = "ok") =>
         Significant(res) = StatementsTypes(parsed.node, 1)

\* C30: in every mode of the interactive loop (evaluate, --token, --parse)
\* the text lexed in an iteration is exactly the line read in that iteration:
\* the buffer is empty before each read, and what is printed for one input
\* holds no text of earlier inputs.
LexesTheLineRead ==
    /\ (~file /\ pc # "read") => text = lastline
    /\ (~file /\ pc = "read") => text = <<>>
    /\ \A i \in 1..Len(printed) : \E l \in ReplInputs : printed[i].input = l.src
EvaluateLexesTheLineRead ==
    (~file /\ show = "none") =>
        /\ pc # "read" => text = lastline
        /\ pc = "read" => text = <<>>

====
